---- MODULE Spec2Model ----
(***************************************************************************)
(* Semantic-action layer of the toy C front end in "2. AST/y.tab.c":       *)
(* the scope-aware symbol table (checksym, addsymbol, addInt, ...), the    *)
(* construction stack of AST nodes (create_node, push_tree, pop_tree) and  *)
(* the semantic actions of yyparse, driven by main.                        *)
(*                                                                         *)
(* The table-driven LALR engine is the external collaborator: it is        *)
(* modelled by a grammar-directed generator (todo/fuel) that emits, in the *)
(* order the parser does, token shifts and reductions of a syntactically   *)
(* well-formed program.  Unit reductions whose action is the default       *)
(* $$ = $1, or the copy $$.fval = $1.fval of the expression chain (rules   *)
(* 63, 71, 74, 79, 82), leave every variable unchanged and are not         *)
(* emitted: fval is read through Fval wherever it is used.  The lexer      *)
(* is not part of the source file: its two callbacks with an effect on the *)
(* state modelled here (IDENTIFIER -> yylval.ptr = checksym(yytext), and   *)
(* '{' -> scope++) happen where the token is shifted.                      *)
(***************************************************************************)
EXTENDS Integers, Sequences, FiniteSets, TLC

\* ------------------------------------------------------------------ bounds
\* number of grammar expansions (block items, declarators, operators) the
\* generated program may use
MaxFuel == 4
\* deepest block nesting the generated program may open
MaxDepth == 2
\* operators and statements of the programs of TreeSpec
TreeFuel == 3
\* operators and statements of the programs of ReportSpec
ReportFuel == 4

\* --------------------------------------------------------- program constants
\* limits.h, with int narrowed to 11 bits so that every value and its float
\* representation fit the integers of the model checker
INT_MIN == -1024
INT_MAX == 1023
\* a float semantic value v is represented by the integer v * FScale
FScale == 2

VARIABLES
    first,      \* the symbol list (struct node chain from `first`), in link order
    scope,      \* int scope
    datatype,   \* int datatype: last type specifier seen
    assigntype, \* int assigntype: type of the last primary expression
    assignop,   \* int assignop
    unaryop,    \* int unaryop
    idcheck,    \* int idcheck
    check_un,   \* int check_un: "inherited" flag of checksym
    crt,        \* struct node *crt (0 is NULL), index into first
    lhs,        \* struct node *lhs (0 is NULL), index into first
    nodes,      \* every Node allocated so far; a Node* is an index, 0 is NULL
    tree_top,   \* the tree_stack chain, bottom first; each entry is a Node*
    yyvs,       \* the parser's semantic value stack (yyvsp points at its end)
    todo,       \* what the parser still has to shift and reduce
    fuel,       \* expansions left to the generator
    out,        \* the diagnostics printed by the last step
    last,       \* the last step: the rule reduced (0: none), the symbol it was
                \* given (0: none), that symbol's dtype and the length of the
                \* symbol list before the step
    snap,       \* history: the symbol list as it was at each '{' still open
    stored,     \* history: the symbols an assignment has stored a value into
    pc,         \* where main is
    root,       \* struct Node *root of main
    preBuf,     \* char preBuf[]: the tokens strcat'ed so far
    report,     \* the sections printed on stdout so far, by their headings
    table       \* the rows printsymtable() printed

vars == <<first, scope, datatype, assigntype, assignop, unaryop, idcheck,
          check_un, crt, lhs, nodes, tree_top, yyvs, todo, fuel, out, last, snap,
          stored, pc,
          root, preBuf, report, table>>

symvars == <<first, scope, check_un>>
flagvars == <<datatype, assigntype, assignop, unaryop, idcheck, crt, lhs>>
treevars == <<nodes, tree_top>>
mainvars == <<root, preBuf, report, table>>

NULL == 0
\* a pointer field of a malloc'ed Node that no statement has assigned
UNINIT == -1

\* ------------------------------------------------------------ symbol table

\* struct node after addsymbol(tp, vname): token and val are not assigned;
\* token "" stands for the bytes malloc left there
addsymbol(vname) ==
    [name |-> vname, token |-> "", dtype |-> -1, scope |-> scope,
     valid |-> 1, val |-> 0]

\* checksym's loop without the validity test on a symbol of an inner scope
RECURSIVE checksym_scan_stale(_, _, _)
checksym_scan_stale(vname, i, cu) ==
    IF i > Len(first) THEN [ret |-> 0, cu |-> cu]
    ELSE LET ftp == first[i] IN
         IF ftp.name = vname
         THEN IF ftp.scope > scope THEN [ret |-> i, cu |-> cu]
              ELSE IF ftp.scope = scope /\ ftp.valid = 1 THEN [ret |-> i, cu |-> cu]
              ELSE IF ftp.scope < scope /\ ftp.valid = 1 THEN [ret |-> i, cu |-> 1]
              ELSE checksym_scan_stale(vname, i + 1, cu)
         ELSE checksym_scan_stale(vname, i + 1, cu)

\* the while loop of checksym from list position i on, cu the running check_un:
\* ret is the symbol returned from inside the loop, 0 when the loop ends
RECURSIVE checksym_scan(_, _, _)
checksym_scan(vname, i, cu) ==
    IF i > Len(first) THEN [ret |-> 0, cu |-> cu]
    ELSE LET ftp == first[i] IN
         IF ftp.name = vname
         THEN IF ftp.scope > scope /\ ftp.valid = 1 THEN [ret |-> i, cu |-> cu]
              ELSE IF ftp.scope = scope /\ ftp.valid = 1 THEN [ret |-> i, cu |-> cu]
              ELSE IF ftp.scope < scope /\ ftp.valid = 1 THEN [ret |-> i, cu |-> 1]
              ELSE IF ftp.scope > scope /\ ftp.valid = 0
                   THEN checksym_scan(vname, i + 1, 0)
                   ELSE checksym_scan(vname, i + 1, cu)
         ELSE checksym_scan(vname, i + 1, cu)

\* checksym(vname): the symbol returned, the list and check_un afterwards
checksym(vname) ==
    LET r == checksym_scan(vname, 1, check_un) IN
    IF r.ret # 0 THEN [ret |-> r.ret, lst |-> first, cu |-> r.cu]
    ELSE [ret |-> Len(first) + 1, lst |-> Append(first, addsymbol(vname)), cu |-> r.cu]

\* addfunc without its test of dtype
addfunc_retype(lst, t, type, s) ==
    [lst EXCEPT ![t].dtype = type, ![t].val = 0, ![t].token = s]

\* addfunc(t, type, s) on list lst
addfunc(lst, t, type, s) ==
    IF lst[t].dtype = -1
    THEN [lst EXCEPT ![t].dtype = type, ![t].val = 0, ![t].token = s]
    ELSE lst

\* addInt(t, type, val): val is already converted to int
addInt(lst, t, type, v) ==
    IF lst[t].dtype = -1
    THEN [lst EXCEPT ![t].dtype = type, ![t].val = v, ![t].token = "identifier"]
    ELSE lst

\* addFloat(t, type, val): val in FScale units
addFloat(lst, t, type, v) ==
    IF lst[t].dtype = -1
    THEN [lst EXCEPT ![t].dtype = type, ![t].val = v, ![t].token = "identifier"]
    ELSE lst

\* addChar(t, type, val)
addChar(lst, t, type, v) ==
    IF lst[t].dtype = -1
    THEN [lst EXCEPT ![t].dtype = type, ![t].val = v, ![t].token = "identifier"]
    ELSE lst

\* C conversions of a float semantic value (FScale units)
\* (int)f truncates toward zero
ToInt(f) == IF f >= 0 THEN f \div FScale ELSE -((-f) \div FScale)
\* (float)i
ToFloat(i) == i * FScale
\* (char)i keeps the low byte, signed
ToChar(i) == ((i + 128) % 256) - 128

\* a scope closing that leaves every symbol as it is
CloseScope_keep(lst) == lst

\* the scope-closing loop flipping valid instead of clearing it
CloseScope_flip(lst) ==
    [i \in 1..Len(lst) |->
        IF lst[i].scope = scope
        THEN [lst[i] EXCEPT !.valid = 1 - lst[i].valid] ELSE lst[i]]

\* the loop closing a scope: statement: compound_statement
CloseScope(lst) ==
    [i \in 1..Len(lst) |->
        IF lst[i].scope = scope /\ lst[i].valid = 1
        THEN [lst[i] EXCEPT !.valid = 0] ELSE lst[i]]

\* the entries whose token the second test of the function-closing loop
\* reads although nothing was written to it: strcmp may find anything there
Unwritten(lst) ==
    {i \in 1..Len(lst) : lst[i].token = "" /\ lst[i].valid = 1 /\ lst[i].scope # scope}

\* the function-closing loop without its test of token
CloseFunction_noparam(lst, g) ==
    [i \in 1..Len(lst) |->
        IF lst[i].scope = scope /\ lst[i].valid = 1
        THEN [lst[i] EXCEPT !.valid = 0] ELSE lst[i]]

\* the loop closing a function: function_definition; g are the entries of
\* Unwritten(lst) whose bytes happen to compare equal to "param"
CloseFunction(lst, g) ==
    [i \in 1..Len(lst) |->
        IF lst[i].scope = scope /\ lst[i].valid = 1
        THEN [lst[i] EXCEPT !.valid = 0]
        ELSE IF (lst[i].token = "param" \/ i \in g) /\ lst[i].valid = 1
        THEN [lst[i] EXCEPT !.valid = 0] ELSE lst[i]]

\* cleansymbol()'s loop with its first test only
cleansymbol_untyped(lst) == SelectSeq(lst, LAMBDA entry : entry.dtype # -1)

\* cleansymbol(): unlink untyped entries and the function entry named main
RECURSIVE cleansymbol(_)
cleansymbol(lst) ==
    IF lst = <<>> THEN <<>>
    ELSE LET entry == Head(lst) IN
         IF entry.dtype = -1 THEN cleansymbol(Tail(lst))
         ELSE IF entry.name = "main" /\ entry.token = "function"
         THEN cleansymbol(Tail(lst))
         ELSE <<entry>> \o cleansymbol(Tail(lst))

\* the Value column of a row: printf("%d"), printf("%f") or printf("%c") of a
\* value, and the text "-\tDelete it"; printf("-\n") prints the character '-'
Cell(k, v) == [k |-> k, v |-> v]
Dash == Cell("%c", 45)

\* printsymtable(): the Value column for entry
ValueColumn(entry) ==
    IF entry.dtype = 0
    THEN IF entry.val = INT_MIN THEN Dash ELSE Cell("%d", entry.val)
    ELSE IF entry.dtype = 1
    THEN IF entry.val = ToFloat(INT_MIN) THEN Dash ELSE Cell("%f", entry.val)
    ELSE IF entry.dtype = 2 THEN Cell("%c", entry.val)
    ELSE IF entry.token = "function" THEN Dash
    ELSE Cell("Delete it", 0)

\* printsymtable(): one row for each entry of the list, in list order
printsymtable(lst) ==
    [i \in 1..Len(lst) |->
        [token |-> lst[i].token, name |-> lst[i].name, dtype |-> lst[i].dtype,
         scope |-> lst[i].scope, value |-> ValueColumn(lst[i])]]

\* ------------------------------------------------------- construction stack

\* Node after malloc and the assignments of create_node / the if and for
\* actions; val, body and level stay as malloc left them unless assigned
Node(token, l, r, v, b) ==
    [token |-> token, left |-> l, right |-> r, val |-> v, body |-> b,
     level |-> UNINIT]

\* push_tree(newnode) on stack st
push_tree(st, n) == Append(st, n)

\* pop_tree() dereferences tree_top: with no entry left the read is through NULL
CanPop(st, k) == Len(st) >= k
Top(st, k) == st[Len(st) + 1 - k]
Drop(st, k) == SubSeq(st, 1, Len(st) - k)

\* number of entries create_node(token, leaf) pops
NPops(leaf) == IF leaf = 0 THEN 2 ELSE IF leaf = 1 THEN 0 ELSE 1

\* create_node(token, leaf) on heap nd and stack st (CanPop(st, NPops(leaf)))
create_node(nd, st, token, leaf) ==
    LET r == IF leaf = 0 THEN Top(st, 1) ELSE NULL
        l == IF leaf = 0 THEN Top(st, 2) ELSE IF leaf = 1 THEN NULL ELSE Top(st, 1)
        newnode == Node(token, l, r, UNINIT, UNINIT)
    IN [nd |-> Append(nd, newnode),
        st |-> push_tree(Drop(st, NPops(leaf)), Len(nd) + 1)]


\* ------------------------------------------------- the parser (collaborator)

\* entries of todo: a nonterminal still to derive, a token to shift (a: the
\* lexeme of an IDENTIFIER, n: the value of a literal or type token), a
\* reduction by rule n
N(s) == [k |-> "N", s |-> s, n |-> 0, a |-> ""]
T(s) == [k |-> "T", s |-> s, n |-> 0, a |-> ""]
ID(a) == [k |-> "T", s |-> "IDENTIFIER", n |-> 0, a |-> a]
LIT(v) == [k |-> "T", s |-> "INTEGER_LITERAL", n |-> v, a |-> ""]
FLIT(v) == [k |-> "T", s |-> "FLOAT_LITERAL", n |-> v, a |-> ""]
CLIT(v) == [k |-> "T", s |-> "CHARACTER_LITERAL", n |-> v, a |-> ""]
R(n) == [k |-> "R", s |-> "", n |-> n, a |-> ""]

\* yylval.ival the lexer delivers with a type token (the dtype codes of
\* printsymtable)
TypeCode(t) == CASE t = "INT" -> 0 [] t = "FLOAT" -> 1 [] t = "CHAR" -> 2 [] t = "VOID" -> 3
\* rule number of type_specifier: t
TypeRule(t) == CASE t = "VOID" -> 31 [] t = "CHAR" -> 32 [] t = "INT" -> 33 [] t = "FLOAT" -> 34

\* yyr2[r]: number of right-hand side symbols of rule r
yyr2 == << 2, 1, 6, 4, 1, 1, 2, 1, 1,
           1, 2, 3, 1, 2, 1, 1, 2, 2, 2,
           4, 6, 3, 1, 1, 1, 1, 5, 7, 7,
           5, 1, 1, 1, 1, 1, 3, 0, 4, 1,
           1, 0, 4, 1, 1, 1, 1, 1, 1, 1,
           5, 1, 2, 1, 3, 1, 1, 1, 1, 3,
           1, 2, 2, 1, 2, 1, 1, 1, 1, 1,
           1, 1, 3, 3, 1, 3, 3, 3, 3, 1,
           3, 3, 1, 3, 3, 3, 3, 2, 4, 3,
           1, 4, 4, 3, 1, 3, 2, 1, 1, 3 >>

\* an alternative of a nonterminal: what replaces it in todo, and its cost
A0(rhs) == [rhs |-> rhs, cost |-> 0]
A1(rhs) == [rhs |-> rhs, cost |-> 1]

\* The grammar of ast.y (rule numbers as in yyparse), restricted to the forms
\* the profile P allows.  Left-recursive lists are derived through the *_rest
\* nonterminals, which emit the list rule after each further element.
Alt(P, nt) ==
    CASE nt = "ext_dec" ->
           {A0(<<N("declaration")>>) : d \in P.ext \cap {"decl"}}
           \cup {A0(<<N("function_definition")>>) : d \in P.ext \cap {"func"}}
      [] nt = "tu_rest" ->
           {A0(<<>>), A1(<<N("ext_dec"), R(7), N("tu_rest")>>)}
      [] nt = "declaration" ->
           {A0(<<N("type_specifier"), N("init_declarator"), N("idl_rest"),
                 T(";"), R(22)>>)}
      [] nt = "type_specifier" ->
           {A0(<<[T(t) EXCEPT !.n = TypeCode(t)], R(TypeRule(t))>>) : t \in P.types}
      [] nt = "init_declarator" ->
           {A0(<<ID(a), R(39)>>) : a \in {b \in P.names : "plain" \in P.decl}}
           \cup {A0(<<ID(a), R(37), T("="), N("initializer"), R(38)>>) :
                    a \in {b \in P.names : "init" \in P.decl}}
      [] nt = "initializer" ->
           {A0(<<LIT(v), R(56)>>) : v \in P.initlits}
           \cup {A0(<<N("assignment_expression")>>) : d \in P.decl \cap {"expr"}}
      [] nt = "idl_rest" ->
           {A0(<<>>)}
           \cup {A1(<<T(","), N("init_declarator"), R(36), N("idl_rest")>>) :
                    d \in P.decl \cap {"multi"}}
      [] nt = "function_definition" ->
           {A0(<<N("type_specifier"), N("declarator"), N("compound_statement"),
                 R(86)>>) : d \in P.func \cap {"typed"}}
           \cup {A0(<<N("declarator"), N("compound_statement"), R(87)>>) :
                    d \in P.func \cap {"untyped"}}
      [] nt = "declarator" ->
           {A0(<<ID(a), R(90)>>) : a \in {b \in P.fnames : "bare" \in P.declr}}
           \cup {A0(<<ID(a), R(90), T("("), T(")"), R(93)>>) :
                    a \in {b \in P.fnames : "noparam" \in P.declr}}
           \cup {A0(<<ID(a), R(90), T("("), N("parameter_declaration"),
                      N("pl_rest"), T(")"), R(91)>>) :
                    a \in {b \in P.fnames : "params" \in P.declr}}
           \cup {A0(<<ID(a), R(90), T("("), ID(b), N("il_rest"), T(")"), R(92)>>) :
                    a \in {c \in P.fnames : "idlist" \in P.declr}, b \in P.names}
      [] nt = "parameter_declaration" ->
           {A0(<<N("type_specifier"), ID(a), R(96)>>) : a \in P.names}
           \cup {A0(<<N("type_specifier")>>) : d \in P.declr \cap {"abstract"}}
      [] nt = "pl_rest" ->
           {A0(<<>>)}
           \cup {A1(<<T(","), N("parameter_declaration"), R(95), N("pl_rest")>>) :
                    d \in P.declr \cap {"multi"}}
      [] nt = "il_rest" ->
           {A0(<<>>)}
           \cup {A1(<<T(","), ID(a), R(99), N("il_rest")>>) :
                    a \in {b \in P.names : "multi" \in P.declr}}
      [] nt = "compound_statement" ->
           {A0(<<T("{"), T("}"), R(11)>>),
            A1(<<T("{"), N("block_item"), N("bil_rest"), T("}"), R(12)>>)}
      [] nt = "bil_rest" ->
           {A0(<<>>), A1(<<N("block_item"), R(14), N("bil_rest")>>)}
      [] nt = "block_item" ->
           {A0(<<N("declaration")>>) : d \in P.item \cap {"decl"}}
           \cup {A0(<<N("statement")>>) : d \in P.item \cap {"stmt"}}
           \cup {A0(<<T("RETURN"), N("expression_statement"), R(18)>>) :
                    d \in P.item \cap {"return"}}
      [] nt = "statement" ->
           {A0(<<N("compound_statement"), R(23)>>) :
                    d \in {e \in P.stmt \cap {"block"} : scope < MaxDepth}}
           \cup {A0(<<N("expression_statement")>>) : d \in P.stmt \cap {"expr"}}
           \cup {A1(<<T("IF"), T("("), N("relational_expression"), T(")"),
                      N("statement"), R(27)>>) : d \in P.stmt \cap {"if"}}
           \cup {A1(<<T("IF"), T("("), N("relational_expression"), T(")"),
                      N("statement"), T("ELSE"), N("statement"), R(28)>>) :
                    d \in P.stmt \cap {"ifelse"}}
           \cup {A1(<<T("FOR"), T("("), N("expression_statement"),
                      N("expression_statement"), N("assignment_expression"), T(")"),
                      N("statement"), R(29)>>) : d \in P.stmt \cap {"for"}}
           \cup {A1(<<T("WHILE"), T("("), N("relational_expression"), T(")"),
                      N("statement"), R(30)>>) : d \in P.stmt \cap {"while"}}
      [] nt = "expression_statement" ->
           {A0(<<T(";")>>) : d \in P.stmt \cap {"empty"}}
           \cup {A0(<<N("assignment_expression"), T(";"), R(52)>>)}
      [] nt = "assignment_expression" ->
           {A0(<<N("primary_expression")>>) : d \in {e \in {1} : "ops" \notin P.expr}}
           \cup {A0(<<N("conditional_expression")>>) : d \in P.expr \cap {"ops"}}
           \cup {A1(<<IF "lvalue" \in P.expr THEN N("lvalue")
                       ELSE N("primary_expression"),
                      R(41), N("assignment_operator"),
                      N("assignment_expression"), R(42)>>) :
                    d \in P.expr \cap {"assign"}}
      [] nt = "lvalue" ->
           {A0(<<ID(a), R(55)>>) : a \in P.names}
      [] nt = "assignment_operator" ->
           {A0(<<T("="), R(43)>>)}
      [] nt = "conditional_expression" ->
           {A0(<<N("additive_expression")>>)}
           \cup {A1(<<N("additive_expression"), T("?"), N("assignment_expression"),
                      T(":"), N("conditional_expression"), R(50)>>) :
                    d \in P.expr \cap {"ternary"}}
      [] nt = "relational_expression" ->
           {A0(<<N("additive_expression"), T("<"), N("additive_expression"), R(75)>>)}
      [] nt = "additive_expression" ->
           {A0(<<N("unary_expression"), N("add_rest")>>) :
               d \in {e \in {1} : "mul" \notin P.expr}}
           \cup {A0(<<N("unary_expression"), N("mul_rest"), N("add_rest")>>) :
                    d \in P.expr \cap {"mul"}}
      [] nt = "add_rest" ->
           {A0(<<>>)}
           \cup {A1(<<T("+"), N("unary_expression"), R(80), N("add_rest")>>) :
                    d \in {e \in P.expr \cap {"binary"} : "mul" \notin P.expr}}
           \cup {A1(<<T("+"), N("unary_expression"), N("mul_rest"), R(80),
                      N("add_rest")>>) :
                    d \in {e \in P.expr \cap {"binary"} : "mul" \in P.expr}}
      [] nt = "mul_rest" ->
           {A0(<<>>)}
           \cup {A1(<<T("*"), N("unary_expression"), R(83), N("mul_rest")>>),
                 A1(<<T("/"), N("unary_expression"), R(84), N("mul_rest")>>),
                 A1(<<T("%"), N("unary_expression"), R(85), N("mul_rest")>>)}
      [] nt = "unary_expression" ->
           {A0(<<N("postfix_expression")>>)}
           \cup {A1(<<T("-"), R(66), N("unary_expression"), R(64)>>) :
                    d \in P.expr \cap {"unary"}}
      [] nt = "postfix_expression" ->
           {A0(<<N("primary_expression")>>)}
           \cup {A1(<<N("primary_expression"), T("INC_OP"), R(61)>>) :
                    d \in P.expr \cap {"postfix"}}
      [] nt = "primary_expression" ->
           {A0(<<ID(a), R(55)>>) : a \in {b \in P.names : "id" \in P.expr}}
           \cup {A0(<<LIT(v), R(56)>>) : v \in P.lits}
           \cup {A0(<<FLIT(v), R(57)>>) : v \in P.flits}
           \cup {A0(<<CLIT(v), R(58)>>) : v \in P.clits}

\* the semantic value of a grammar symbol: which member of union YYSTYPE was
\* written (t), and its value
V(t, v, s) == [t |-> t, v |-> v, s |-> s]
NoValue == V("none", 0, "")
\* the value slot of a token the lexer gives no yylval: nothing the program
\* reads; v keeps the number of Nodes allocated when the token was shifted
Mark == V("none", Len(nodes), "")
\* what a read of fval can yield when another member was written last
GarbageF == {0, FScale}
\* $n.fval
Fval(e) == IF e.t = "fval" THEN {e.v} ELSE GarbageF

\* $k of a rule with yylen right-hand side symbols
Dollar(k, yylen) == yyvs[Len(yyvs) - yylen + k]
\* the value stack after the reduction: YYPOPSTACK(yylen); *++yyvsp = yyval
Reduced(yylen, yyval) == Append(SubSeq(yyvs, 1, Len(yyvs) - yylen), yyval)

AtToken(s) == pc = "parse" /\ todo # <<>> /\ Head(todo).k = "T" /\ Head(todo).s = s
AtReduce(r) == pc = "parse" /\ todo # <<>> /\ Head(todo).k = "R" /\ Head(todo).n = r

\* what a step leaves in out, last and stored; rule is 0 for a step that
\* reduces nothing and -1 for the shift of an IDENTIFIER, whose sym is
\* yylval.ptr; the steps of rule 42 that name a symbol are those that reach
\* the if chain on crt->dtype, which stores for the types int, float and char
Event(msgs, rule, sym) ==
    /\ out' = msgs
    /\ stored' = IF rule = 42 /\ sym \in 1..Len(first) /\ first[sym].dtype \in {0, 1, 2}
                 THEN stored \cup {sym} ELSE stored
    /\ last' = [rule |-> rule, sym |-> sym,
                dtype |-> IF sym \in 1..Len(first) THEN first[sym].dtype ELSE -1,
                len |-> Len(first)]

\* the parser derives the next nonterminal (its choice of input program)
Expand(P) ==
    /\ pc = "parse" /\ todo # <<>> /\ Head(todo).k = "N"
    /\ \E alt \in Alt(P, Head(todo).s) :
          /\ alt.cost <= fuel
          /\ fuel' = fuel - alt.cost
          /\ todo' = alt.rhs \o Tail(todo)
    /\ Event(<<>>, 0, 0)
    /\ UNCHANGED <<symvars, flagvars, treevars, yyvs, snap, pc, mainvars>>

\* yylex returns IDENTIFIER with yylval.ptr = checksym(yytext); the token is shifted
LexIdentifier ==
    /\ AtToken("IDENTIFIER")
    /\ LET r == checksym(Head(todo).a) IN
          /\ first' = r.lst
          /\ check_un' = r.cu
          /\ yyvs' = Append(yyvs, V("ptr", r.ret, ""))
          /\ Event(<<>>, -1, r.ret)
    /\ todo' = Tail(todo)
    /\ UNCHANGED <<scope, flagvars, treevars, fuel, mainvars, snap, pc>>

\* yylex returns '{' after scope++; the token is shifted
LexOpenBrace ==
    /\ AtToken("{")
    /\ scope' = scope + 1
    /\ snap' = Append(snap, first)
    /\ yyvs' = Append(yyvs, Mark)
    /\ todo' = Tail(todo)
    /\ Event(<<>>, 0, 0)
    /\ UNCHANGED <<first, check_un, flagvars, treevars, fuel, mainvars, pc>>

\* any other token is shifted with its yylval
Shift ==
    /\ pc = "parse" /\ todo # <<>> /\ Head(todo).k = "T"
    /\ Head(todo).s \notin {"IDENTIFIER", "{"}
    /\ yyvs' = Append(yyvs,
                 IF Head(todo).s \in {"INTEGER_LITERAL", "INT", "FLOAT", "CHAR", "VOID"}
                 THEN V("ival", Head(todo).n, "")
                 ELSE IF Head(todo).s = "FLOAT_LITERAL" THEN V("fval", Head(todo).n, "")
                 ELSE IF Head(todo).s = "CHARACTER_LITERAL" THEN V("cval", Head(todo).n, "")
                 ELSE Mark)
    /\ todo' = Tail(todo)
    /\ Event(<<>>, 0, 0)
    /\ UNCHANGED <<symvars, flagvars, treevars, fuel, mainvars, snap, pc>>

\* a rule with no action of its own and more than one symbol: $$ = $1
NoActionRules == {7, 11, 12, 22, 36, 52, 91, 92, 93, 95, 99}
ReduceDefault ==
    /\ pc = "parse" /\ todo # <<>> /\ Head(todo).k = "R" /\ Head(todo).n \in NoActionRules
    /\ LET yylen == yyr2[Head(todo).n] IN yyvs' = Reduced(yylen, Dollar(1, yylen))
    /\ todo' = Tail(todo)
    /\ Event(<<>>, Head(todo).n, 0)
    /\ UNCHANGED <<symvars, flagvars, treevars, fuel, mainvars, snap, pc>>

\* a pop_tree() with tree_top == NULL reads through the null pointer
Segv ==
    /\ pc' = "segv"
    /\ Event(<<>>, 0, 0)
    /\ UNCHANGED <<symvars, flagvars, treevars, yyvs, todo, fuel, mainvars, snap>>


\* ----------------------------------------------------------- semantic actions

\* the narrowing warnings of an initialisation or assignment to a symbol of
\* type dt while assigntype is the type of the right-hand side
Narrowing(dt) ==
    IF dt = 0 /\ assigntype = 1 THEN <<"warning: implicit conversion from 'float' to 'int'">>
    ELSE IF dt = 1 /\ assigntype = 2 THEN <<"warning: implicit conversion from 'char' to 'float'">>
    ELSE IF dt = 2 /\ assigntype = 1 THEN <<"warning: implicit conversion from 'float' to 'char'">>
    ELSE <<>>

\* the if (datatype == 0) addInt ... else if ... chain of init_declarator with
\* initialiser f ($4.fval)
TypeWithValue(lst, t, f) ==
    IF datatype = 0 THEN addInt(lst, t, 0, ToInt(f))
    ELSE IF datatype = 1 THEN addFloat(lst, t, 1, f)
    ELSE IF datatype = 2 THEN addChar(lst, t, 2, ToChar(ToInt(f)))
    ELSE lst

\* the same chain of init_declarator: IDENTIFIER (no initialiser)
TypeUnset(lst, t) ==
    IF datatype = 0 THEN addInt(lst, t, 0, INT_MIN)
    ELSE IF datatype = 1 THEN addFloat(lst, t, 1, ToFloat(INT_MIN))
    ELSE IF datatype = 2 THEN addChar(lst, t, 2, 45)
    ELSE lst

\* init_declarator without its redefinition branch
DeclBranch_silent(sym) ==
    IF sym.dtype # -1 /\ sym.scope < scope /\ sym.valid = 1 THEN "shadow"
    ELSE "declare"

\* the branch an init_declarator action takes for its IDENTIFIER $1
DeclBranch(sym) ==
    IF sym.dtype # -1 /\ sym.scope < scope /\ sym.valid = 1 THEN "shadow"
    ELSE IF sym.dtype # -1 THEN "redefinition"
    ELSE "declare"

\* case 2: S: program
Accept ==
    /\ AtReduce(2)
    /\ first' = cleansymbol(first)
    /\ snap' = <<first>>
    /\ pc' = "parsed"
    /\ todo' = Tail(todo)
    /\ Event(<<"Symbol Table">>, 2, 0)
    /\ report' = Append(report, "Symbol Table")
    /\ table' = printsymtable(cleansymbol(first))
    /\ UNCHANGED <<scope, check_un, flagvars, treevars, yyvs, fuel, root, preBuf>>

\* case 14: block_item_list: block_item_list block_item
BlockItemList ==
    /\ AtReduce(14)
    /\ IF CanPop(tree_top, 2)
       THEN /\ LET c == create_node(nodes, tree_top, "stmt", 0) IN
                  nodes' = c.nd /\ tree_top' = c.st
            /\ yyvs' = Reduced(2, Dollar(1, 2))
            /\ todo' = Tail(todo)
            /\ Event(<<>>, 14, 0)
            /\ UNCHANGED <<symvars, flagvars, fuel, mainvars, snap, pc>>
       ELSE Segv

\* case 23: statement: compound_statement
CloseBlock ==
    /\ AtReduce(23)
    /\ first' = CloseScope(first)
    /\ scope' = scope - 1
    /\ snap' = SubSeq(snap, 1, Len(snap) - 1)
    /\ yyvs' = Reduced(1, Dollar(1, 1))
    /\ todo' = Tail(todo)
    /\ Event(<<>>, 23, 0)
    /\ UNCHANGED <<check_un, flagvars, treevars, fuel, mainvars, pc>>

\* cases 31..34: type_specifier
TypeSpecifier ==
    /\ pc = "parse" /\ todo # <<>> /\ Head(todo).k = "R" /\ Head(todo).n \in 31..34
    /\ datatype' = Dollar(1, 1).v
    /\ yyvs' = Reduced(1, Dollar(1, 1))
    /\ todo' = Tail(todo)
    /\ Event(<<>>, Head(todo).n, 0)
    /\ UNCHANGED <<symvars, assigntype, assignop, unaryop, idcheck, crt, lhs,
                   treevars, fuel, mainvars, snap, pc>>

\* case 37: $@1 of init_declarator: IDENTIFIER $@1 '=' assignment_expression
DeclaratorLeaf ==
    /\ AtReduce(37)
    /\ LET c == create_node(nodes, tree_top, first[Dollar(1, 1).v].name, 1) IN
          nodes' = c.nd /\ tree_top' = c.st
    /\ yyvs' = Reduced(0, NoValue)
    /\ todo' = Tail(todo)
    /\ Event(<<>>, 37, Dollar(1, 1).v)
    /\ UNCHANGED <<symvars, flagvars, fuel, mainvars, snap, pc>>

\* case 38: init_declarator: IDENTIFIER $@1 '=' assignment_expression
InitDeclaratorInit ==
    /\ AtReduce(38)
    /\ LET p == Dollar(1, 4).v
           br == DeclBranch(first[p])
           nnode == Len(first) + 1
       IN \E f \in Fval(Dollar(4, 4)) :
          IF br = "redefinition"
          THEN /\ Event(<<"error: redefinition">>, 38, p)
               /\ yyvs' = Reduced(4, Dollar(1, 4))
               /\ todo' = Tail(todo)
               /\ UNCHANGED <<symvars, flagvars, treevars, fuel, mainvars, snap, pc>>
          ELSE IF CanPop(tree_top, 2)
          THEN /\ first' = IF br = "shadow"
                           THEN TypeWithValue(Append(first, addsymbol(first[p].name)),
                                              nnode, f)
                           ELSE TypeWithValue(first, p, f)
               /\ Event(Narrowing(datatype), 38, p)
               /\ LET c == create_node(nodes, tree_top, "=", 0) IN
                     nodes' = c.nd /\ tree_top' = c.st
               /\ yyvs' = Reduced(4, IF br = "shadow" THEN V("ptr", nnode, "")
                                     ELSE Dollar(1, 4))
               /\ todo' = Tail(todo)
               /\ UNCHANGED <<scope, check_un, flagvars, fuel, mainvars, snap, pc>>
          ELSE Segv

\* case 39: init_declarator: IDENTIFIER
InitDeclarator ==
    /\ AtReduce(39)
    /\ LET p == Dollar(1, 1).v
           br == DeclBranch(first[p])
           nnode == Len(first) + 1
           q == IF br = "shadow" THEN nnode ELSE p
       IN IF br = "redefinition"
          THEN /\ Event(<<"error: redefinition">>, 39, p)
               /\ yyvs' = Reduced(1, Dollar(1, 1))
               /\ UNCHANGED <<symvars, treevars>>
          ELSE /\ first' = IF br = "shadow"
                           THEN TypeUnset(Append(first, addsymbol(first[p].name)), nnode)
                           ELSE TypeUnset(first, p)
               /\ Event(<<>>, 39, p)
               /\ LET c == create_node(nodes, tree_top, "Dc " \o first[p].name, 1) IN
                     nodes' = c.nd /\ tree_top' = c.st
               /\ yyvs' = Reduced(1, V("ptr", q, ""))
               /\ UNCHANGED <<scope, check_un>>
    /\ todo' = Tail(todo)
    /\ UNCHANGED <<flagvars, fuel, mainvars, snap, pc>>

\* the value slot of the mid-rule action $@2, which nothing reads: v keeps
\* the symbol of the IDENTIFIER just reduced as the left-hand side, NULL when
\* the left-hand side is not an identifier
Target == V("none", IF last.rule = 55 THEN last.sym ELSE NULL, "")

\* case 41: $@2 of assignment_expression
AssignTarget ==
    /\ AtReduce(41)
    /\ crt' = lhs
    /\ yyvs' = Reduced(0, Target)
    /\ todo' = Tail(todo)
    /\ Event(<<>>, 41, 0)
    /\ UNCHANGED <<symvars, datatype, assigntype, assignop, unaryop, idcheck, lhs,
                   treevars, fuel, mainvars, snap, pc>>

\* cases 43..48: assignment_operator
AssignmentOperator ==
    /\ pc = "parse" /\ todo # <<>> /\ Head(todo).k = "R" /\ Head(todo).n \in 43..48
    /\ assignop' = Head(todo).n - 43
    /\ yyvs' = Reduced(1, Dollar(1, 1))
    /\ todo' = Tail(todo)
    /\ Event(<<>>, Head(todo).n, 0)
    /\ UNCHANGED <<symvars, datatype, assigntype, unaryop, idcheck, crt, lhs,
                   treevars, fuel, mainvars, snap, pc>>

\* the label create_node gets in case assignop of assignment_expression
AssignLabel(op) ==
    CASE op = 0 -> "=" [] op = 1 -> "+=" [] op = 2 -> "-=" [] op = 3 -> "*="
      [] op = 4 -> "/=" [] op = 5 -> "%="

\* case 42, assignop 0: what is stored into crt of type dt from $4.fval
Assigned(dt, f) ==
    IF dt = 0 THEN ToInt(f)
    ELSE IF dt = 1 THEN f
    ELSE ToChar(ToInt(f))

\* case 42: assignment_expression: unary_expression $@2 assignment_operator
\*          assignment_expression   (assignop 0, '=', and no case)
Assignment ==
    /\ AtReduce(42)
    /\ assignop \notin 1..5
    /\ \E f \in Fval(Dollar(4, 4)) :
          IF assignop # 0
          THEN \* no case of switch(assignop) matches: the inner assignment of
               \* a chain has reset assignop to -1
               /\ Event(<<>>, 42, 0)
               /\ assignop' = -1 /\ assigntype' = -1
               /\ yyvs' = Reduced(4, Dollar(1, 4))
               /\ todo' = Tail(todo)
               /\ UNCHANGED <<symvars, datatype, unaryop, idcheck, crt, lhs,
                              treevars, fuel, mainvars, snap, pc>>
          ELSE
          IF idcheck # 1
          THEN /\ Event(<<"We'll see later">>, 42, 0)
               /\ crt' = NULL /\ assignop' = -1 /\ assigntype' = -1
               /\ yyvs' = Reduced(4, Dollar(1, 4))
               /\ todo' = Tail(todo)
               /\ UNCHANGED <<symvars, datatype, unaryop, idcheck, lhs, treevars,
                              fuel, mainvars, snap, pc>>
          ELSE IF CanPop(tree_top, 2) /\ crt # NULL
          THEN /\ LET c == create_node(nodes, tree_top, AssignLabel(assignop), 0) IN
                     nodes' = c.nd /\ tree_top' = c.st
               /\ first' = IF first[crt].dtype \in {0, 1, 2}
                           THEN [first EXCEPT ![crt].val = Assigned(first[crt].dtype, f)]
                           ELSE first
               /\ Event(IF first[crt].dtype \in {0, 1, 2}
                        THEN Narrowing(first[crt].dtype) ELSE <<>>, 42, crt)
               /\ crt' = NULL /\ assignop' = -1 /\ assigntype' = -1
               /\ yyvs' = Reduced(4, Dollar(1, 4))
               /\ todo' = Tail(todo)
               /\ UNCHANGED <<scope, check_un, datatype, unaryop, idcheck, lhs,
                              fuel, mainvars, snap, pc>>
          ELSE Segv

\* case 55: primary_expression: IDENTIFIER
PrimaryIdentifier ==
    /\ AtReduce(55)
    /\ LET p == Dollar(1, 1).v
           sym == first[p]
       IN /\ idcheck' = 1
          /\ lhs' = p
          /\ IF sym.dtype = -1 /\ check_un = 0
             THEN /\ Event(<<"error: use of undeclared identifier">>, 55, p)
                  /\ check_un' = 0
                  /\ yyvs' = Reduced(1, Dollar(1, 1))
                  /\ UNCHANGED <<assigntype, treevars>>
             ELSE IF sym.dtype \in {0, 1, 2}
             THEN /\ yyvs' = Reduced(1, V("fval",
                                 IF sym.dtype = 1 THEN sym.val ELSE ToFloat(sym.val), ""))
                  /\ assigntype' = sym.dtype
                  /\ LET c == create_node(nodes, tree_top, sym.name, 1) IN
                        nodes' = c.nd /\ tree_top' = c.st
                  /\ Event(<<>>, 55, p)
                  /\ UNCHANGED check_un
             ELSE /\ yyvs' = Reduced(1, Dollar(1, 1))
                  /\ Event(<<>>, 55, p)
                  /\ UNCHANGED <<assigntype, treevars, check_un>>
    /\ todo' = Tail(todo)
    /\ UNCHANGED <<first, scope, datatype, assignop, unaryop, crt, fuel, mainvars, snap, pc>>

\* case 56: primary_expression: INTEGER_LITERAL
PrimaryInteger ==
    /\ AtReduce(56)
    /\ yyvs' = Reduced(1, V("fval", ToFloat(Dollar(1, 1).v), ""))
    /\ assigntype' = 0
    /\ LET c == create_node(nodes, tree_top, ToString(Dollar(1, 1).v), 1) IN
          nodes' = c.nd /\ tree_top' = c.st
    /\ todo' = Tail(todo)
    /\ Event(<<>>, 56, 0)
    /\ UNCHANGED <<symvars, datatype, assignop, unaryop, idcheck, crt, lhs, fuel, mainvars, snap, pc>>

\* cases 86 and 87: function_definition: [type_specifier] declarator
\*                  compound_statement
FunctionDefinition ==
    /\ pc = "parse" /\ todo # <<>> /\ Head(todo).k = "R" /\ Head(todo).n \in {86, 87}
    /\ IF CanPop(tree_top, 1)
       THEN /\ LET yylen == yyr2[Head(todo).n]
                     c == create_node(nodes, tree_top, Dollar(yylen - 1, yylen).s, 3)
                 IN nodes' = c.nd /\ tree_top' = c.st
            /\ Event(IF Head(todo).n = 87
                     THEN <<"warning: type specifier missing, defaults to 'int'">>
                     ELSE <<>>, Head(todo).n, 0)
            /\ \E g \in SUBSET Unwritten(first) : first' = CloseFunction(first, g)
            /\ scope' = scope - 1
            /\ snap' = SubSeq(snap, 1, Len(snap) - 1)
            /\ yyvs' = Reduced(yyr2[Head(todo).n], Dollar(1, yyr2[Head(todo).n]))
            /\ todo' = Tail(todo)
            /\ UNCHANGED <<check_un, flagvars, fuel, mainvars, pc>>
       ELSE Segv

\* case 90: declarator: IDENTIFIER
DeclaratorIdentifier ==
    /\ AtReduce(90)
    /\ first' = addfunc(first, Dollar(1, 1).v, datatype, "function")
    /\ yyvs' = Reduced(1, V("string", 0, first[Dollar(1, 1).v].name))
    /\ todo' = Tail(todo)
    /\ Event(<<>>, 90, Dollar(1, 1).v)
    /\ UNCHANGED <<scope, check_un, flagvars, treevars, fuel, mainvars, snap, pc>>

\* case 96: parameter_declaration: type_specifier IDENTIFIER
ParameterDeclaration ==
    /\ AtReduce(96)
    /\ first' = addfunc(first, Dollar(2, 2).v, datatype, "param")
    /\ yyvs' = Reduced(2, Dollar(1, 2))
    /\ todo' = Tail(todo)
    /\ Event(<<>>, 96, Dollar(2, 2).v)
    /\ UNCHANGED <<scope, check_un, flagvars, treevars, fuel, mainvars, snap, pc>>

\* case 18: block_item: RETURN expression_statement
Return ==
    /\ AtReduce(18)
    /\ LET c == create_node(nodes, tree_top, "return", 1) IN
          nodes' = c.nd /\ tree_top' = c.st
    /\ yyvs' = Reduced(2, Dollar(1, 2))
    /\ todo' = Tail(todo)
    /\ Event(<<>>, 18, 0)
    /\ UNCHANGED <<symvars, flagvars, fuel, mainvars, snap, pc>>

\* the tail common to the actions that malloc a Node themselves: k entries
\* popped, newnode pushed, $$ = yyval
Build(rule, k, newnode, yyval) ==
    IF CanPop(tree_top, k)
    THEN /\ nodes' = Append(nodes, newnode)
         /\ tree_top' = push_tree(Drop(tree_top, k), Len(nodes) + 1)
         /\ yyvs' = Reduced(yyr2[rule], yyval)
         /\ todo' = Tail(todo)
         /\ Event(<<>>, rule, 0)
         /\ UNCHANGED <<symvars, flagvars, fuel, mainvars, snap, pc>>
    ELSE Segv

\* case 27: condition_statement: IF '(' relational_expression ')' statement
IfThen ==
    /\ AtReduce(27)
    /\ Build(27, 2, Node("if", Top(tree_top, 2), Top(tree_top, 1), NULL, UNINIT),
             Dollar(1, 5))

\* case 28: condition_statement: IF '(' relational_expression ')' statement
\*          ELSE statement
IfThenElse ==
    /\ AtReduce(28)
    /\ Build(28, 3, Node("if", Top(tree_top, 3), Top(tree_top, 2), Top(tree_top, 1),
                         UNINIT),
             Dollar(1, 7))

\* case 29: iteration_statement: FOR '(' expression_statement
\*          expression_statement expression ')' statement
For ==
    /\ AtReduce(29)
    /\ Build(29, 4, Node("for", Top(tree_top, 4), Top(tree_top, 3), Top(tree_top, 2),
                         Top(tree_top, 1)),
             Dollar(1, 7))

\* case 30: iteration_statement: WHILE '(' relational_expression ')' statement
While ==
    /\ AtReduce(30)
    /\ IF CanPop(tree_top, 2)
       THEN /\ LET c == create_node(nodes, tree_top, "while", 0) IN
                  nodes' = c.nd /\ tree_top' = c.st
            /\ yyvs' = Reduced(5, Dollar(1, 5))
            /\ todo' = Tail(todo)
            /\ Event(<<>>, 30, 0)
            /\ UNCHANGED <<symvars, flagvars, fuel, mainvars, snap, pc>>
       ELSE Segv

\* case 50: conditional_expression: equality_expression '?' expression ':'
\*          conditional_expression
Conditional ==
    /\ AtReduce(50)
    /\ \E c \in Fval(Dollar(1, 5)), t \in Fval(Dollar(3, 5)), e \in Fval(Dollar(5, 5)) :
          Build(50, 3, Node("if", Top(tree_top, 3), Top(tree_top, 2), Top(tree_top, 1),
                            UNINIT),
                V("fval", IF c = FScale THEN t ELSE e, ""))

\* cases 61, 62: postfix_expression: postfix_expression INC_OP | DEC_OP
Postfix ==
    /\ pc = "parse" /\ todo # <<>> /\ Head(todo).k = "R" /\ Head(todo).n \in {61, 62}
    /\ IF CanPop(tree_top, 2)
       THEN /\ LET c == create_node(nodes, tree_top,
                                    IF Head(todo).n = 61 THEN "++" ELSE "--", 0) IN
                  nodes' = c.nd /\ tree_top' = c.st
            /\ \E f \in Fval(Dollar(1, 2)) :
                  yyvs' = Reduced(2, V("fval", IF Head(todo).n = 61 THEN f + FScale
                                               ELSE f - FScale, ""))
            /\ todo' = Tail(todo)
            /\ Event(<<>>, Head(todo).n, 0)
            /\ UNCHANGED <<symvars, flagvars, fuel, mainvars, snap, pc>>
       ELSE Segv

\* cases 65..70: unary_operator
UnaryOperator ==
    /\ pc = "parse" /\ todo # <<>> /\ Head(todo).k = "R" /\ Head(todo).n \in 65..70
    /\ unaryop' = Head(todo).n - 64
    /\ yyvs' = Reduced(1, Dollar(1, 1))
    /\ todo' = Tail(todo)
    /\ Event(<<>>, Head(todo).n, 0)
    /\ UNCHANGED <<symvars, datatype, assigntype, assignop, idcheck, crt, lhs,
                   treevars, fuel, mainvars, snap, pc>>

\* case 64: the label create_node gets in case unaryop
UnaryLabel(op) ==
    CASE op = 1 -> "'+'" [] op = 2 -> "'-'" [] op = 3 -> "!" [] op = 4 -> "~"
      [] op = 5 -> "++" [] op = 6 -> "--"

\* case 64: $$ in case unaryop, from $2.fval
UnaryValue(op, f) ==
    CASE op = 1 -> f
      [] op = 2 -> -f
      [] op = 3 -> IF f = 0 THEN FScale ELSE 0
      [] op = 4 -> ToFloat(-ToInt(f) - 1)
      [] op = 5 -> f + FScale
      [] op = 6 -> f - FScale

\* case 64: unary_expression: unary_operator unary_expression
Unary ==
    /\ AtReduce(64)
    /\ IF unaryop \notin 1..6
       THEN /\ yyvs' = Reduced(2, Dollar(1, 2))
            /\ UNCHANGED <<treevars, pc>>
            /\ unaryop' = -1
            /\ todo' = Tail(todo)
            /\ Event(<<>>, 64, 0)
            /\ UNCHANGED <<symvars, datatype, assigntype, assignop, idcheck, crt, lhs,
                           fuel, mainvars, snap>>
       ELSE IF CanPop(tree_top, 2)
       THEN /\ LET c == create_node(nodes, tree_top, UnaryLabel(unaryop), 0) IN
                  nodes' = c.nd /\ tree_top' = c.st
            /\ \E f \in Fval(Dollar(2, 2)) :
                  yyvs' = Reduced(2, V("fval", UnaryValue(unaryop, f), ""))
            /\ unaryop' = -1
            /\ todo' = Tail(todo)
            /\ Event(<<>>, 64, 0)
            /\ UNCHANGED <<symvars, datatype, assigntype, assignop, idcheck, crt, lhs,
                           fuel, mainvars, snap, pc>>
       ELSE Segv

\* cases 72, 73, 75..78, 80, 81: the rules whose action is create_node(op, 0)
\* and a value computed from $1.fval and $3.fval
\* a / b and a % b of C on ints: the quotient is truncated toward zero
CDiv(a, b) ==
    IF (a >= 0) = (b > 0) THEN (IF a >= 0 THEN a ELSE -a) \div (IF b > 0 THEN b ELSE -b)
    ELSE -((IF a >= 0 THEN a ELSE -a) \div (IF b > 0 THEN b ELSE -b))
CMod(a, b) == a - b * CDiv(a, b)
\* x * y and x / y on fval, in units of 1/FScale
MulF(x, y) == CDiv(x * y, FScale)
DivF(x, y) == CDiv(x * FScale, y)

BinaryRules == {72, 73, 75, 76, 77, 78, 80, 81, 83}
BinaryLabel(r) ==
    CASE r = 72 -> "==" [] r = 73 -> "!=" [] r = 75 -> "<" [] r = 76 -> ">"
      [] r = 77 -> "<=" [] r = 78 -> ">=" [] r = 80 -> "+" [] r = 81 -> "-"
      [] r = 83 -> "*"
Truth(b) == IF b THEN FScale ELSE 0
BinaryValue(r, x, y) ==
    CASE r = 72 -> Truth(x = y) [] r = 73 -> Truth(x # y) [] r = 75 -> Truth(x < y)
      [] r = 76 -> Truth(x > y) [] r = 77 -> Truth(x <= y) [] r = 78 -> Truth(x >= y)
      [] r = 80 -> x + y [] r = 81 -> x - y
      [] r = 83 -> MulF(x, y)
Binary ==
    /\ pc = "parse" /\ todo # <<>> /\ Head(todo).k = "R" /\ Head(todo).n \in BinaryRules
    /\ IF CanPop(tree_top, 2)
       THEN /\ LET c == create_node(nodes, tree_top, BinaryLabel(Head(todo).n), 0) IN
                  nodes' = c.nd /\ tree_top' = c.st
            /\ \E x \in Fval(Dollar(1, 3)), y \in Fval(Dollar(3, 3)) :
                  yyvs' = Reduced(3, V("fval", BinaryValue(Head(todo).n, x, y), ""))
            /\ todo' = Tail(todo)
            /\ Event(<<>>, Head(todo).n, 0)
            /\ UNCHANGED <<symvars, flagvars, fuel, mainvars, snap, pc>>
       ELSE Segv

\* yyerrlab: the next token of the input is none the parser can shift here;
\* yyerror("syntax error"), no state shifts the error token, YYABORT: the
\* stacks of the parser are popped and yyparse returns 1
SyntaxError ==
    /\ pc = "parse" /\ todo # <<>> /\ Head(todo).k \in {"T", "N"}
    /\ pc' = "aborted"
    /\ yyvs' = <<>>
    /\ todo' = <<>>
    /\ Event(<<"error: syntax error">>, 0, 0)
    /\ UNCHANGED <<symvars, flagvars, treevars, fuel, snap, mainvars>>

\* ------------------------------------------------------------------- main

\* sprintf(tempStr, "%f", v) for a literal v >= 0: six decimals
FloatText(v) ==
    ToString(v \div FScale) \o (IF v % FScale = 0 THEN ".000000" ELSE ".500000")
\* sprintf(tempStr, "%c", c) for the letters a, b, c
Letters == <<"a", "b", "c">>
CharText(c) == Letters[c - 96]

\* case 57: primary_expression: FLOAT_LITERAL ($$ is left as $1)
PrimaryFloat ==
    /\ AtReduce(57)
    /\ yyvs' = Reduced(1, Dollar(1, 1))
    /\ assigntype' = 1
    /\ LET c == create_node(nodes, tree_top, FloatText(Dollar(1, 1).v), 1) IN
          nodes' = c.nd /\ tree_top' = c.st
    /\ todo' = Tail(todo)
    /\ Event(<<>>, 57, 0)
    /\ UNCHANGED <<symvars, datatype, assignop, unaryop, idcheck, crt, lhs, fuel,
                   mainvars, snap, pc>>

\* case 58: primary_expression: CHARACTER_LITERAL ($$ is left as $1)
PrimaryCharacter ==
    /\ AtReduce(58)
    /\ yyvs' = Reduced(1, Dollar(1, 1))
    /\ assigntype' = 2
    /\ LET c == create_node(nodes, tree_top, CharText(Dollar(1, 1).v), 1) IN
          nodes' = c.nd /\ tree_top' = c.st
    /\ todo' = Tail(todo)
    /\ Event(<<>>, 58, 0)
    /\ UNCHANGED <<symvars, datatype, assignop, unaryop, idcheck, crt, lhs, fuel,
                   mainvars, snap, pc>>

\* case 84: multiplicative_expression: multiplicative_expression '/'
\*          unary_expression
Divide ==
    /\ AtReduce(84)
    /\ \E x \in Fval(Dollar(1, 3)), y \in Fval(Dollar(3, 3)) :
          IF y = 0
          THEN /\ yyvs' = Reduced(3, V("fval", ToFloat(INT_MAX), ""))
               /\ todo' = Tail(todo)
               /\ Event(<<"warning: division by zero is undefined">>, 84, 0)
               /\ UNCHANGED <<symvars, flagvars, treevars, fuel, mainvars, snap, pc>>
          ELSE IF CanPop(tree_top, 2)
          THEN /\ yyvs' = Reduced(3, V("fval", DivF(x, y), ""))
               /\ LET c == create_node(nodes, tree_top, "/", 0) IN
                     nodes' = c.nd /\ tree_top' = c.st
               /\ todo' = Tail(todo)
               /\ Event(<<>>, 84, 0)
               /\ UNCHANGED <<symvars, flagvars, fuel, mainvars, snap, pc>>
          ELSE Segv

\* case 85: multiplicative_expression: multiplicative_expression '%'
\*          unary_expression.  The test is on assigntype, the type of the
\* primary expression reduced last; in the error branch $$ is left as $1.
\* (int)$1 % (int)$3 with (int)$3 == 0 is undefined: the run traps, or goes on
\* with some value
Modulo ==
    /\ AtReduce(85)
    /\ IF assigntype = 1
       THEN /\ yyvs' = Reduced(3, Dollar(1, 3))
            /\ todo' = Tail(todo)
            /\ Event(<<"error: invalid operands to binary expression ('float' and 'float')">>,
                     85, 0)
            /\ UNCHANGED <<symvars, flagvars, treevars, fuel, mainvars, snap, pc>>
       ELSE \E x \in Fval(Dollar(1, 3)), y \in Fval(Dollar(3, 3)) :
            \E trap \in {b \in BOOLEAN : b => ToInt(y) = 0} :
               IF trap \/ ~CanPop(tree_top, 2) THEN Segv
               ELSE \E m \in (IF ToInt(y) = 0 THEN GarbageF
                              ELSE {ToFloat(CMod(ToInt(x), ToInt(y)))}) :
                       /\ yyvs' = Reduced(3, V("fval", m, ""))
                       /\ LET c == create_node(nodes, tree_top, "%", 0) IN
                             nodes' = c.nd /\ tree_top' = c.st
                       /\ todo' = Tail(todo)
                       /\ Event(<<>>, 85, 0)
                       /\ UNCHANGED <<symvars, flagvars, fuel, mainvars, snap, pc>>

\* root = pop_tree() without waiting for yyparse() to return
MainPop_early ==
    /\ pc \in {"parse", "parsed", "aborted"}
    /\ CanPop(tree_top, 1)
    /\ root' = Top(tree_top, 1)
    /\ tree_top' = Drop(tree_top, 1)
    /\ pc' = "popped"
    /\ Event(<<>>, 0, 0)
    /\ UNCHANGED <<symvars, flagvars, nodes, yyvs, todo, fuel, snap, preBuf, report,
                   table>>

\* main: root = pop_tree() after yyparse() returned
MainPop ==
    /\ pc \in {"parsed", "aborted"}
    /\ IF CanPop(tree_top, 1)
       THEN /\ root' = Top(tree_top, 1)
            /\ tree_top' = Drop(tree_top, 1)
            /\ pc' = "popped"
            /\ Event(<<>>, 0, 0)
            /\ UNCHANGED <<symvars, flagvars, nodes, yyvs, todo, fuel, snap,
                           preBuf, report, table>>
       ELSE Segv

\* get_levels(n, level) on heap nd: the level is stored, then the non-NULL
\* ones of left and right are visited, left first
RECURSIVE get_levels(_, _, _)
get_levels(nd, n, level) ==
    LET here == [nd EXCEPT ![n].level = level]
        l == nd[n].left
        r == nd[n].right
    IN IF l = NULL /\ r = NULL THEN here
       ELSE IF l = NULL THEN get_levels(here, r, level + 1)
       ELSE IF r = NULL THEN get_levels(here, l, level + 1)
       ELSE get_levels(get_levels(here, l, level + 1), r, level + 1)

\* main: get_levels(root, 1); printtree(root) prints nothing
GetLevels ==
    /\ pc = "popped"
    /\ IF root # NULL
       THEN /\ nodes' = get_levels(nodes, root, 1)
            /\ pc' = "levelled"
            /\ Event(<<>>, 0, 0)
            /\ UNCHANGED <<symvars, flagvars, tree_top, yyvs, todo, fuel, snap,
                           mainvars>>
       ELSE Segv

\* the slots of a Node in the order preorder follows them
Children(nd, n) == <<nd[n].left, nd[n].right, nd[n].val, nd[n].body>>

\* the Nodes preorder(n) visits when every slot never assigned reads as NULL
RECURSIVE Visited(_, _)
Visited(nd, n) ==
    IF n = NULL \/ n = UNINIT THEN {}
    ELSE {n} \cup UNION {Visited(nd, Children(nd, n)[k]) : k \in 1..4}

\* preorder(n): what it appends to preBuf when every slot never assigned
\* reads as NULL
RECURSIVE preorder(_, _)
preorder(nd, n) ==
    IF n = NULL \/ n = UNINIT THEN <<>>
    ELSE LET c == Children(nd, n)
             any == \E k \in 1..4 : c[k] # NULL /\ c[k] # UNINIT
         IN (IF any THEN <<"(">> ELSE <<>>)
            \o <<nd[n].token>>
            \o preorder(nd, c[1]) \o preorder(nd, c[2])
            \o preorder(nd, c[3]) \o preorder(nd, c[4])
            \o (IF any THEN <<")">> ELSE <<>>)

\* some Node that preorder(root) visits has a slot that was never assigned
ReadsUnassigned(nd, n) ==
    \E m \in Visited(nd, n) : \E k \in 1..4 : Children(nd, m)[k] = UNINIT

\* main: preorder(root); printf of the heading and of preBuf.  A slot never
\* assigned holds what malloc left: where it reads as NULL it is skipped,
\* where it does not, preorder is called on a pointer to no Node
Preorder ==
    /\ pc = "levelled"
    /\ \E wild \in {b \in BOOLEAN : b => ReadsUnassigned(nodes, root)} :
          IF wild THEN Segv
          ELSE /\ preBuf' = preBuf \o preorder(nodes, root)
               /\ report' = Append(report, "Preorder Traversal")
               /\ pc' = "done"
               /\ Event(<<"Preorder Traversal">>, 0, 0)
               /\ UNCHANGED <<symvars, flagvars, treevars, yyvs, todo, fuel, snap,
                              root, table>>

\* a second call preorder(root) on the tree of the first: preBuf is a global
\* array that nothing clears, and preorder only ever strcat()s onto it
PreorderAgain ==
    /\ pc = "done"
    /\ \E wild \in {b \in BOOLEAN : b => ReadsUnassigned(nodes, root)} :
          IF wild THEN Segv
          ELSE /\ preBuf' = preBuf \o preorder(nodes, root)
               /\ pc' = "again"
               /\ Event(<<>>, 0, 0)
               /\ UNCHANGED <<symvars, flagvars, treevars, yyvs, todo, fuel, snap,
                              root, report, table>>

\* ------------------------------------------------------------ specifications

\* main before yyparse(): tree_top is one entry with node = NULL; the parser is
\* about to derive translation_unit
Init ==
    /\ first = <<>>
    /\ scope = 0
    /\ datatype = -1 /\ assigntype = -1 /\ assignop = -1 /\ unaryop = -1
    /\ idcheck = -1 /\ check_un = 0
    /\ crt = NULL /\ lhs = NULL
    /\ nodes = <<>>
    /\ tree_top = <<NULL>>
    /\ yyvs = <<>>
    /\ todo = <<N("ext_dec"), N("tu_rest"), R(2)>>
    /\ fuel = MaxFuel
    /\ root = UNINIT
    /\ preBuf = <<>>
    /\ report = <<>>
    /\ table = <<>>
    /\ out = <<>>
    /\ snap = <<>>
    /\ stored = {}
    /\ last = [rule |-> 0, sym |-> 0, dtype |-> -1, len |-> 0]
    /\ pc = "parse"

\* programs over one name: declarations with and without initialiser,
\* references, assignments, nested blocks, functions with a parameter
SymProfile ==
    [names |-> {"a"}, fnames |-> {"f"}, types |-> {"INT"}, initlits |-> {5},
     lits |-> {6}, flits |-> {}, clits |-> {},
     ext |-> {"decl", "func"}, decl |-> {"plain", "init"},
     func |-> {"typed", "untyped"}, declr |-> {"noparam", "params"},
     item |-> {"decl", "stmt"}, stmt |-> {"block", "expr"},
     expr |-> {"id", "assign"}]

Next ==
    \/ Expand(SymProfile)
    \/ LexIdentifier
    \/ LexOpenBrace
    \/ Shift
    \/ ReduceDefault
    \/ Accept
    \/ BlockItemList
    \/ CloseBlock
    \/ TypeSpecifier
    \/ DeclaratorLeaf
    \/ InitDeclaratorInit
    \/ InitDeclarator
    \/ AssignTarget
    \/ AssignmentOperator
    \/ Assignment
    \/ PrimaryIdentifier
    \/ PrimaryInteger
    \/ FunctionDefinition
    \/ DeclaratorIdentifier
    \/ ParameterDeclaration
    \/ MainPop
    \/ GetLevels
    \/ Preorder

Spec == Init /\ [][Next]_vars

\* programs with a function main: declarations, functions with a parameter
\* and references, up to the call of cleansymbol()
FinProfile ==
    [names |-> {"a"}, fnames |-> {"f", "main"}, types |-> {"INT"}, initlits |-> {5},
     lits |-> {6}, flits |-> {}, clits |-> {},
     ext |-> {"decl", "func"}, decl |-> {"plain"},
     func |-> {"typed", "untyped"}, declr |-> {"noparam", "params"},
     item |-> {"stmt"}, stmt |-> {"expr"},
     expr |-> {"id"}]

NextFin ==
    \/ Expand(FinProfile)
    \/ LexIdentifier
    \/ LexOpenBrace
    \/ Shift
    \/ ReduceDefault
    \/ Accept
    \/ BlockItemList
    \/ TypeSpecifier
    \/ InitDeclarator
    \/ PrimaryIdentifier
    \/ PrimaryInteger
    \/ FunctionDefinition
    \/ DeclaratorIdentifier
    \/ ParameterDeclaration
    \/ MainPop
    \/ GetLevels
    \/ Preorder

FinSpec == Init /\ [][NextFin]_vars

\* programs that are one or more functions f() { ... } whose bodies are
\* declarations int a; and statements over expressions with operators: the
\* construction of the tree
TreeProfile ==
    [names |-> {"a"}, fnames |-> {"f"}, types |-> {"INT"}, initlits |-> {5},
     lits |-> {6}, flits |-> {}, clits |-> {},
     ext |-> {"func"}, decl |-> {"plain"},
     func |-> {"untyped"}, declr |-> {"noparam"},
     item |-> {"decl", "stmt", "return"},
     stmt |-> {"block", "expr", "empty", "if", "ifelse", "for", "while"},
     expr |-> {"ops", "id", "assign", "binary", "unary", "postfix", "ternary"}]

NextTree ==
    \/ Expand(TreeProfile)
    \/ LexIdentifier
    \/ LexOpenBrace
    \/ Shift
    \/ ReduceDefault
    \/ Accept
    \/ BlockItemList
    \/ CloseBlock
    \/ TypeSpecifier
    \/ InitDeclarator
    \/ AssignTarget
    \/ AssignmentOperator
    \/ Assignment
    \/ PrimaryIdentifier
    \/ PrimaryInteger
    \/ FunctionDefinition
    \/ DeclaratorIdentifier
    \/ Return
    \/ IfThen
    \/ IfThenElse
    \/ For
    \/ While
    \/ Conditional
    \/ Postfix
    \/ UnaryOperator
    \/ Unary
    \/ Binary
    \/ MainPop
    \/ GetLevels
    \/ Preorder

\* main before yyparse(), as in Init, for a program of TreeFuel constructs
TreeInit ==
    /\ first = <<>>
    /\ scope = 0
    /\ datatype = -1 /\ assigntype = -1 /\ assignop = -1 /\ unaryop = -1
    /\ idcheck = -1 /\ check_un = 0
    /\ crt = NULL /\ lhs = NULL
    /\ nodes = <<>>
    /\ tree_top = <<NULL>>
    /\ yyvs = <<>>
    /\ todo = <<N("ext_dec"), N("tu_rest"), R(2)>>
    /\ fuel = TreeFuel
    /\ root = UNINIT
    /\ preBuf = <<>>
    /\ report = <<>>
    /\ table = <<>>
    /\ out = <<>>
    /\ snap = <<>>
    /\ stored = {}
    /\ last = [rule |-> 0, sym |-> 0, dtype |-> -1, len |-> 0]
    /\ pc = "parse"

TreeSpec == TreeInit /\ [][NextTree]_vars

\* programs that are functions f() { ... } whose statements are expressions
\* over int and float literals and the name a with *, / and %
ArithProfile ==
    [names |-> {"a"}, fnames |-> {"f"}, types |-> {"INT"}, initlits |-> {5},
     lits |-> {0, 6}, flits |-> {3}, clits |-> {},
     ext |-> {"func"}, decl |-> {"plain"},
     func |-> {"untyped"}, declr |-> {"noparam"},
     item |-> {"stmt"}, stmt |-> {"expr"},
     expr |-> {"ops", "mul", "id"}]

NextArith ==
    \/ Expand(ArithProfile)
    \/ LexIdentifier
    \/ LexOpenBrace
    \/ Shift
    \/ ReduceDefault
    \/ Accept
    \/ BlockItemList
    \/ PrimaryIdentifier
    \/ PrimaryInteger
    \/ PrimaryFloat
    \/ FunctionDefinition
    \/ DeclaratorIdentifier
    \/ Binary
    \/ Divide
    \/ Modulo
    \/ MainPop
    \/ GetLevels
    \/ Preorder

ArithSpec == TreeInit /\ [][NextArith]_vars

\* programs that are functions f() { ... } whose items are declarations with
\* an initializer, int, float or char, and assignments, the right-hand sides
\* being sums of int, float and char literals and the name a
NarrowProfile ==
    [names |-> {"a"}, fnames |-> {"f"}, types |-> {"INT", "FLOAT", "CHAR"},
     initlits |-> {}, lits |-> {6}, flits |-> {3}, clits |-> {98},
     ext |-> {"func"}, decl |-> {"init", "expr"},
     func |-> {"untyped"}, declr |-> {"noparam"},
     item |-> {"decl", "stmt"}, stmt |-> {"expr"},
     expr |-> {"ops", "id", "assign", "binary"}]

NextNarrow ==
    \/ Expand(NarrowProfile)
    \/ LexIdentifier
    \/ LexOpenBrace
    \/ Shift
    \/ ReduceDefault
    \/ Accept
    \/ BlockItemList
    \/ TypeSpecifier
    \/ DeclaratorLeaf
    \/ InitDeclaratorInit
    \/ AssignTarget
    \/ AssignmentOperator
    \/ Assignment
    \/ PrimaryIdentifier
    \/ PrimaryInteger
    \/ PrimaryFloat
    \/ PrimaryCharacter
    \/ FunctionDefinition
    \/ DeclaratorIdentifier
    \/ Binary
    \/ MainPop
    \/ GetLevels
    \/ Preorder

NarrowSpec == TreeInit /\ [][NextNarrow]_vars

\* programs that are functions f() { ... } whose items are declarations
\* float a; and assignments to a of 6, 1024.0 and their negations: the rows
\* of the symbol table report
ReportProfile ==
    [names |-> {"a"}, fnames |-> {"f"}, types |-> {"FLOAT"},
     initlits |-> {}, lits |-> {6}, flits |-> {ToFloat(-INT_MIN)}, clits |-> {},
     ext |-> {"func"}, decl |-> {"plain"},
     func |-> {"untyped"}, declr |-> {"noparam"},
     item |-> {"decl", "stmt"}, stmt |-> {"expr"},
     expr |-> {"ops", "lvalue", "assign", "unary"}]

NextReport ==
    \/ Expand(ReportProfile)
    \/ LexIdentifier
    \/ LexOpenBrace
    \/ Shift
    \/ ReduceDefault
    \/ Accept
    \/ BlockItemList
    \/ TypeSpecifier
    \/ InitDeclarator
    \/ AssignTarget
    \/ AssignmentOperator
    \/ Assignment
    \/ PrimaryIdentifier
    \/ PrimaryInteger
    \/ PrimaryFloat
    \/ FunctionDefinition
    \/ DeclaratorIdentifier
    \/ UnaryOperator
    \/ Unary
    \/ MainPop
    \/ GetLevels
    \/ Preorder

\* main before yyparse(), as in Init, for a program of ReportFuel constructs
ReportInit ==
    /\ first = <<>>
    /\ scope = 0
    /\ datatype = -1 /\ assigntype = -1 /\ assignop = -1 /\ unaryop = -1
    /\ idcheck = -1 /\ check_un = 0
    /\ crt = NULL /\ lhs = NULL
    /\ nodes = <<>>
    /\ tree_top = <<NULL>>
    /\ yyvs = <<>>
    /\ todo = <<N("ext_dec"), N("tu_rest"), R(2)>>
    /\ fuel = ReportFuel
    /\ root = UNINIT
    /\ preBuf = <<>>
    /\ report = <<>>
    /\ table = <<>>
    /\ out = <<>>
    /\ snap = <<>>
    /\ stored = {}
    /\ last = [rule |-> 0, sym |-> 0, dtype |-> -1, len |-> 0]
    /\ pc = "parse"

ReportSpec == ReportInit /\ [][NextReport]_vars

\* the programs of TreeSpec, serialized twice
NextTwice ==
    \/ NextTree
    \/ PreorderAgain

TwiceSpec == TreeInit /\ [][NextTwice]_vars

\* the programs of TreeSpec, and their prefixes followed by a token that is a
\* syntax error
NextRun ==
    \/ NextTree
    \/ SyntaxError

RunSpec == TreeInit /\ [][NextRun]_vars

\* main runs on: some step is taken whenever one is possible
FairRunSpec == RunSpec /\ WF_vars(NextRun)

\* ------------------------------------------------------------------ claims

\* the non-NULL entries of the construction stack
StackNodes == {i \in 1..Len(tree_top) : tree_top[i] # NULL}
\* the typed, valid entries of list lst
Live(lst) == {i \in 1..Len(lst) : lst[i].dtype # -1 /\ lst[i].valid = 1}
\* an init_declarator is about to be reduced; its IDENTIFIER $1
AtDeclaration == AtReduce(38) \/ AtReduce(39)
DeclTarget == IF AtReduce(38) THEN Dollar(1, 4).v ELSE Dollar(1, 1).v
\* a scope is about to be closed
AtClose == AtReduce(23) \/ AtReduce(86) \/ AtReduce(87)

\* C1: after the last reduction of a well-formed program, when main is about
\* to pop the root, the construction stack holds exactly one AST node.
C1_OneRootAtEnd == pc = "parsed" => Cardinality(StackNodes) = 1

\* C2: a typed symbol of an outer scope is what checksym returns in every
\* inner scope while no same-named declaration of a deeper scope is live; and
\* when a scope that redeclared the name closes, the outer symbol is valid, is
\* what checksym returns, and has the value it had when that scope opened.
C2_Resolvable ==
    \A i \in Live(first) :
        (/\ first[i].scope < scope
         /\ \A j \in Live(first) :
               first[j].name = first[i].name => first[j].scope <= first[i].scope)
        => checksym(first[i].name).ret = i
C2_Restored ==
    (AtClose /\ pc' = "parse") =>
        LET before == snap[Len(snap)] IN
        \A i \in Live(before) :
            (/\ before[i].token = "identifier"
             /\ \E j \in (Len(before) + 1)..Len(first) :
                   /\ first[j].name = before[i].name
                   /\ first[j].scope = scope
                   /\ first[j].dtype # -1)
            => /\ first'[i].valid = 1
               /\ first'[i].val = before[i].val
               /\ (checksym(first[i].name).ret)' = i
C2_OuterSurvivesInnerScope == [][C2_Resolvable /\ C2_Restored]_vars

\* C3: while a declaration of a name in an inner scope is live, a lookup of
\* the name never returns the same-named symbol of the outer scope.
C3_InnerHidesOuter ==
    \A i \in 1..Len(first) : \A j \in Live(first) :
        (/\ first[i].valid = 1
         /\ first[j].name = first[i].name
         /\ first[j].scope > first[i].scope)
        => checksym(first[i].name).ret # i

\* C4: every lookup agrees with the reference: with a valid same-named symbol
\* of a strictly outer scope, one of them is returned, the inherited flag is
\* set and the list is unchanged; otherwise with a valid same-named symbol of
\* the current scope, one of them is returned and the list is unchanged;
\* otherwise (no match, or only invalid ones such as those of a closed inner
\* scope) a new untyped valid symbol of the current scope is appended at the
\* end and returned.
C4_Outcome(vname, ret) ==
    LET same == {i \in 1..Len(first) : first[i].name = vname /\ first[i].valid = 1}
        outer == {i \in same : first[i].scope < scope}
        cur == {i \in same : first[i].scope = scope}
    IN IF outer # {} THEN ret \in outer /\ check_un' = 1 /\ first' = first
       ELSE IF cur # {} THEN ret \in cur /\ first' = first
       ELSE /\ ret = Len(first) + 1
            /\ Len(first') = Len(first) + 1
            /\ SubSeq(first', 1, Len(first)) = first
            /\ first'[ret].name = vname
            /\ first'[ret].dtype = -1
            /\ first'[ret].scope = scope
            /\ first'[ret].valid = 1
C4_ChecksymReference ==
    [][AtToken("IDENTIFIER") => C4_Outcome(Head(todo).a, yyvs'[Len(yyvs')].v)]_vars
\* a lookup has just appended a fresh symbol although a same-named symbol of a
\* closed inner scope is in the list
C4_Witness ==
    /\ last.rule = -1 /\ last.sym = Len(first) /\ last.len = Len(first) - 1
    /\ \E i \in 1..last.len :
          /\ first[i].name = first[last.sym].name
          /\ first[i].valid = 0
          /\ first[i].scope > scope

\* C5: a declaration of a name that already has a typed, valid symbol of the
\* current scope prints exactly one redefinition error and leaves exactly one
\* typed symbol of that name and scope.
C5_Step ==
    AtDeclaration =>
        LET n == first[DeclTarget].name
            twice(lst) == {i \in Live(lst) : lst[i].name = n /\ lst[i].scope = scope}
        IN twice(first) # {} =>
              /\ out' = <<"error: redefinition">>
              /\ Cardinality(twice(first')) = 1
C5_OneErrorOneSymbol == [][C5_Step]_vars

\* C6 as stated: a declaration whose target is typed and valid in a scope less
\* than or equal to the current depth prints a redefinition error, and then
\* the list is unchanged and parsing goes on.
C6_Original_Step ==
    (/\ AtDeclaration
     /\ DeclTarget \in Live(first)
     /\ first[DeclTarget].scope <= scope)
    => /\ out' = <<"error: redefinition">>
       /\ first' = first
       /\ pc' = "parse" /\ todo' = Tail(todo)
C6_Original == [][C6_Original_Step]_vars
\* C6 amended: the error is printed when the target is typed and valid at
\* exactly the current depth (list unchanged, parsing goes on); a typed valid
\* target of a strictly outer depth is shadowed without a redefinition error.
C6_Step ==
    AtDeclaration =>
        /\ (DeclTarget \in Live(first) /\ first[DeclTarget].scope = scope)
           => /\ out' = <<"error: redefinition">>
              /\ first' = first
              /\ pc' = "parse" /\ todo' = Tail(todo)
        /\ (DeclTarget \in Live(first) /\ first[DeclTarget].scope < scope)
           => /\ out' # <<"error: redefinition">>
              /\ pc' = "parse" =>
                    /\ Len(first') = Len(first) + 1
                    /\ SubSeq(first', 1, Len(first)) = first
        /\ first[DeclTarget].dtype = -1 => out' # <<"error: redefinition">>
C6_RedefinitionError == [][C6_Step]_vars
\* a declaration has just been rejected as a redefinition
C6_Witness ==
    /\ last.rule \in {38, 39} /\ out = <<"error: redefinition">>
    /\ last.dtype # -1 /\ first[last.sym].scope = scope /\ first[last.sym].valid = 1

\* C7: before finalize, no step changes the dtype of a typed symbol, and a
\* typing call on a typed symbol (declarator and parameter_declaration, the
\* only actions that make one) leaves the whole list as it was.
C7_Step ==
    pc' = "parse" =>
        /\ Len(first') >= Len(first)
        /\ \A i \in 1..Len(first) :
              first[i].dtype # -1 => first'[i].dtype = first[i].dtype
        /\ (AtReduce(90) /\ first[Dollar(1, 1).v].dtype # -1) => first' = first
        /\ (AtReduce(96) /\ first[Dollar(2, 2).v].dtype # -1) => first' = first
C7_KindImmutable == [][C7_Step]_vars
\* addfunc has just been called on a symbol that was typed already
C7_Witness == last.rule \in {90, 96} /\ last.dtype \in {0, 1, 2}

\* C8: no two valid symbols have the same name and the same scope.
C8_OneLivePerNameScope ==
    \A i, j \in 1..Len(first) :
        (/\ i # j
         /\ first[i].valid = 1 /\ first[j].valid = 1
         /\ first[i].name = first[j].name)
        => first[i].scope # first[j].scope

\* what a scope close leaves untouched: length, order and every field but valid
C9_Frame ==
    /\ Len(first') = Len(first)
    /\ \A i \in 1..Len(first) : [first'[i] EXCEPT !.valid = 0] = [first[i] EXCEPT !.valid = 0]
    /\ scope' = scope - 1
\* C9 as stated: a scope close clears valid on the valid symbols of the
\* current depth and changes the validity of no other symbol.
C9_Original_Step ==
    (AtClose /\ pc' = "parse") =>
        /\ C9_Frame
        /\ \A i \in 1..Len(first) :
              first'[i].valid = IF first[i].scope = scope THEN 0 ELSE first[i].valid
C9_Original == [][C9_Original_Step]_vars
\* C9 amended: a function-definition close clears valid also on every valid
\* symbol whose token is "param", whatever its depth (and possibly on one whose
\* token was never written); a block close does not.
C9_Step ==
    (AtClose /\ pc' = "parse") =>
        /\ C9_Frame
        /\ \A i \in 1..Len(first) :
              IF first[i].scope = scope THEN first'[i].valid = 0
              ELSE IF ~AtReduce(23) /\ first[i].token = "param" THEN first'[i].valid = 0
              ELSE IF ~AtReduce(23) /\ first[i].token = ""
                   THEN first'[i].valid \in {0, first[i].valid}
              ELSE first'[i].valid = first[i].valid
C9_ScopeClose == [][C9_Step]_vars
\* a function definition has just been closed and a parameter, which is not of
\* the closed depth, is invalid
C9_Witness ==
    /\ last.rule \in {86, 87}
    /\ \E i \in 1..Len(first) :
          first[i].token = "param" /\ first[i].valid = 0 /\ first[i].scope # scope + 1

\* C10: before finalize the list only grows at its end, names and scopes are
\* fixed, valid only goes from 1 to 0, and a shadowing declaration appends one
\* symbol of the same name and leaves the whole list before it as it was.
C10_Step ==
    pc' = "parse" =>
        /\ Len(first') >= Len(first)
        /\ \A i \in 1..Len(first) :
              /\ first'[i].name = first[i].name
              /\ first'[i].scope = first[i].scope
              /\ first[i].valid = 0 => first'[i].valid = 0
        /\ (/\ AtDeclaration
            /\ DeclTarget \in Live(first)
            /\ first[DeclTarget].scope < scope)
           => /\ Len(first') = Len(first) + 1
              /\ SubSeq(first', 1, Len(first)) = first
              /\ first'[Len(first')].name = first[DeclTarget].name
              /\ first'[Len(first')].scope = scope
C10_AppendInvalidateOnly == [][C10_Step]_vars
\* a declaration has just shadowed a typed outer symbol, which is still valid
C10_Witness ==
    /\ last.rule \in {38, 39} /\ last.dtype # -1
    /\ Len(first) = last.len + 1
    /\ first[last.sym].valid = 1
    /\ first[Len(first)].name = first[last.sym].name
    /\ first[Len(first)].scope > first[last.sym].scope

\* the symbol list as it was when cleansymbol() was called
BeforeClean == snap[1]

\* C11: cleansymbol() removes exactly the untyped symbols and the symbol of
\* kind function named main; every other symbol, valid or not, is still in
\* the list, unchanged and in its original order.
C11_Step ==
    AtReduce(2) =>
        first' = SelectSeq(first, LAMBDA e : ~(e.dtype = -1)
                                   /\ ~(e.name = "main" /\ e.token = "function"))
C11_CleanExactly == [][C11_Step]_vars
\* the list held an untyped symbol and a typed function main, both are gone,
\* and an invalid typed symbol is among those that survived
C11_Witness ==
    /\ pc = "parsed"
    /\ \E i \in 1..Len(BeforeClean) : BeforeClean[i].dtype = -1
    /\ \E i \in 1..Len(BeforeClean) :
          /\ BeforeClean[i].dtype # -1
          /\ BeforeClean[i].name = "main" /\ BeforeClean[i].token = "function"
    /\ \A i \in 1..Len(first) :
          first[i].dtype # -1 /\ ~(first[i].name = "main" /\ first[i].token = "function")
    /\ \E i \in 1..Len(first) : first[i].valid = 0

\* C12: a reference (primary_expression: IDENTIFIER) to a symbol that is
\* untyped, and that the lookup did not resolve to a valid symbol of an outer
\* scope, prints exactly one undeclared-identifier error and leaves the symbol
\* untyped.
C12_Step ==
    AtReduce(55) =>
        LET p == Dollar(1, 1).v IN
           (/\ first[p].dtype = -1
            /\ ~(first[p].valid = 1 /\ first[p].scope < scope))
           => /\ out' = <<"error: use of undeclared identifier">>
              /\ first'[p].dtype = -1
C12_UndeclaredReported == [][C12_Step]_vars

\* the entries of tree_top a step pops: those above the ones it keeps (a step
\* pushes at most the one Node it allocates)
Popped ==
    LET kept == Len(tree_top') - (Len(nodes') - Len(nodes))
    IN {tree_top[j] : j \in (kept + 1)..Len(tree_top)}

\* C13: no step of the parse obtains an absent node (NULL) from pop_tree, and
\* none pops when tree_top holds no entry.
C13_Step == pc = "parse" => (NULL \notin Popped /\ pc' # "segv")
C13_NoAbsentPop == [][C13_Step]_vars

\* the step allocates one Node, which is NewNode
Built == Len(nodes') = Len(nodes) + 1
NewNode == nodes'[Len(nodes')]
\* the step is the reduction of one of the rules rs
Reducing(rs) == pc = "parse" /\ todo # <<>> /\ Head(todo).k = "R" /\ Head(todo).n \in rs
\* the step replaces the k topmost entries by the Node it allocates
Replaces(k) ==
    /\ pc' = "parse" /\ Built
    /\ CanPop(tree_top, k)
    /\ tree_top' = push_tree(Drop(tree_top, k), Len(nodes'))
\* the root of what was parsed between the shift of the token whose value is
\* m1 and the shift of the one whose value is m2: the Node allocated last
\* (NULL when none was)
RootBetween(m1, m2) == IF m2.v > m1.v THEN m2.v ELSE NULL
\* the root of what was parsed since the shift of the token whose value is m
RootSince(m) == IF Len(nodes) > m.v THEN Len(nodes) ELSE NULL

\* C14: the reduction of a binary or relational operator, of an assignment or
\* of while replaces the two topmost entries by one new node whose right
\* child is the entry pushed last and whose left child the one pushed before
\* it, both of them nodes; for an operator the right child is the root of
\* its right operand, for while the left child is the root of the condition
\* and the right child the root of the body.
C14_Step ==
    Reducing(BinaryRules \cup {30, 42}) =>
        /\ Replaces(2)
        /\ NewNode.right = Top(tree_top, 1) /\ NewNode.right # NULL
        /\ NewNode.left = Top(tree_top, 2) /\ NewNode.left # NULL
        /\ Head(todo).n \in BinaryRules => NewNode.right = RootSince(Dollar(2, 3))
        /\ Head(todo).n = 30 =>
              /\ NewNode.left = RootBetween(Dollar(2, 5), Dollar(4, 5))
              /\ NewNode.right = RootSince(Dollar(4, 5))
C14_GenericBinary == [][C14_Step]_vars

\* C15: the reduction of if-then replaces the two topmost entries by one node
\* labelled if whose child[0] is the root of the condition, child[1] the root
\* of the then statement and child[2] empty; the reductions of if-then-else
\* and of the ternary replace the three topmost entries by one node whose
\* child[0], child[1], child[2] are the roots of condition, then and else.
C15_Step ==
    /\ Reducing({27}) =>
          /\ Replaces(2)
          /\ NewNode.token = "if"
          /\ NewNode.left = Top(tree_top, 2)
          /\ NewNode.left = RootBetween(Dollar(2, 5), Dollar(4, 5))
          /\ NewNode.right = Top(tree_top, 1)
          /\ NewNode.right = RootSince(Dollar(4, 5))
          /\ NewNode.val = NULL
    /\ Reducing({28, 50}) =>
          /\ Replaces(3)
          /\ NewNode.token = "if"
          /\ NewNode.left = Top(tree_top, 3) /\ NewNode.left # NULL
          /\ NewNode.right = Top(tree_top, 2)
          /\ NewNode.val = Top(tree_top, 1)
    /\ Reducing({28}) =>
          /\ NewNode.left = RootBetween(Dollar(2, 7), Dollar(4, 7))
          /\ NewNode.right = RootBetween(Dollar(4, 7), Dollar(6, 7))
          /\ NewNode.val = RootSince(Dollar(6, 7))
    /\ Reducing({50}) =>
          /\ NewNode.right = RootBetween(Dollar(2, 5), Dollar(4, 5))
          /\ NewNode.val = RootSince(Dollar(4, 5))
C15_IfNodes == [][C15_Step]_vars

\* C16: the reduction of for replaces the four topmost entries by one node
\* labelled for whose child[0..3] are the entries in the order they were
\* pushed, all four of them nodes allocated while this for statement was
\* parsed: init, condition, increment (the last one before ')') and body (the
\* last one after it).
C16_Step ==
    Reducing({29}) =>
        /\ Replaces(4)
        /\ NewNode.token = "for"
        /\ NewNode.left = Top(tree_top, 4)
        /\ NewNode.right = Top(tree_top, 3)
        /\ NewNode.val = Top(tree_top, 2)
        /\ NewNode.body = Top(tree_top, 1)
        /\ Dollar(2, 7).v < NewNode.left
        /\ NewNode.left < NewNode.right
        /\ NewNode.right < NewNode.val
        /\ NewNode.val = RootBetween(Dollar(2, 7), Dollar(6, 7))
        /\ NewNode.body = RootSince(Dollar(6, 7))
C16_ForNode == [][C16_Step]_vars

\* C17: the reduction of a prefix unary operator or of a postfix ++ or --
\* replaces exactly one entry, the operand, by a new node whose child[0] is
\* that entry and whose child[1] is empty.
C17_Step ==
    Reducing({61, 62, 64}) =>
        /\ Replaces(1)
        /\ NewNode.left = Top(tree_top, 1)
        /\ NewNode.right = NULL
C17_UnaryOneChild == [][C17_Step]_vars

\* C18: the reduction of return, when an expression was parsed after the
\* keyword, replaces exactly one entry, the root of that expression, by a
\* node labelled return whose child[0] is that entry.
C18_Step ==
    (Reducing({18}) /\ RootSince(Dollar(1, 2)) # NULL) =>
        /\ Replaces(1)
        /\ NewNode.token = "return"
        /\ NewNode.left = Top(tree_top, 1)
        /\ NewNode.left = RootSince(Dollar(1, 2))
C18_ReturnOneChild == [][C18_Step]_vars

\* C19: in every node the slots its kind does not use are empty: body in every
\* node that is not a for node, val in every node that is neither an if nor a
\* for node, and left and right as well in the leaf of a literal.
C19_UnusedSlotsEmpty ==
    \A n \in 1..Len(nodes) :
        /\ nodes[n].token # "for" => nodes[n].body = NULL
        /\ nodes[n].token \notin {"if", "for"} => nodes[n].val = NULL
        /\ nodes[n].token = "6" => nodes[n].left = NULL /\ nodes[n].right = NULL

\* the Nodes a pointer slot may refer to: the one it was assigned, any one
\* when it was never assigned (the value malloc left is indeterminate)
MayRef(x) == IF x = UNINIT THEN 1..Len(nodes) ELSE {x} \ {NULL}
Slots == {"left", "right", "val", "body"}
\* the places that may hold a reference to Node n: stack entries and slots
Places(n) ==
    {<<i, "stack">> : i \in {j \in 1..Len(tree_top) : tree_top[j] = n}}
    \cup {pl \in (1..Len(nodes)) \X Slots : n \in MayRef(nodes[pl[1]][pl[2]])}

\* C20: while the tree is under construction every node is referenced from
\* exactly one place, a stack entry or one slot of one node, and no node is
\* reachable from itself (a slot refers to a node allocated earlier only).
C20_Forest ==
    pc \in {"parse", "parsed"} =>
        /\ \A n \in 1..Len(nodes) : Cardinality(Places(n)) = 1
        /\ \A m \in 1..Len(nodes) : \A s \in Slots :
              \A c \in MayRef(nodes[m][s]) : c < m

\* C24: the reduction of a function definition without type specifier prints
\* the missing-type warning and leaves the symbol of the function's name
\* with kind function and type int.
C24_Step ==
    Reducing({87}) =>
        /\ out' = <<"warning: type specifier missing, defaults to 'int'">>
        /\ \E i \in 1..Len(first') :
              /\ first'[i].name = Dollar(1, 2).s
              /\ first'[i].token = "function"
              /\ first'[i].dtype = 0
C24_UntypedFunctionIsInt == [][C24_Step]_vars

\* C27: after get_levels(root, 1) the root has level 1 and every node reachable
\* from it through any of the four slots has the level of its parent plus one.
C27_Levels ==
    pc \in {"levelled", "done"} =>
        /\ nodes[root].level = 1
        /\ \A m \in Visited(nodes, root) : \A k \in 1..4 :
              LET c == Children(nodes, m)[k] IN
                 c \notin {NULL, UNINIT} => nodes[c].level = nodes[m].level + 1

\* C28: once yyparse has returned non-zero (the input was not accepted), no
\* step of phase 2 is taken: the root is not popped, no level is assigned and
\* nothing is serialized.
C28_Step ==
    pc = "aborted" => UNCHANGED <<root, tree_top, nodes, preBuf, report>>
C28_NoPhase2AfterAbort == [][C28_Step]_vars

\* the sections printed so far
Printed == {report[i] : i \in 1..Len(report)}

\* C29: every run, accepted or cut short by an error, eventually has printed
\* both the symbol table report and the preorder dump.
C29_BothOutputs == <>({"Symbol Table", "Preorder Traversal"} \subseteq Printed)

\* C30: the symbol table is cleaned and reported exactly by the reduction of
\* rule 2; that step is taken at most once, with nothing left to reduce after
\* it, before the root is popped and before anything is serialized; after it
\* the parser takes no step and the symbol list is never touched again.
C30_Step ==
    /\ (report' = Append(report, "Symbol Table")) <=> Reducing({2})
    /\ Reducing({2}) =>
          /\ "Symbol Table" \notin Printed
          /\ todo' = <<>> /\ pc' = "parsed"
          /\ root = UNINIT /\ preBuf = <<>>
    /\ root' # root => "Symbol Table" \in Printed
    /\ "Symbol Table" \in Printed =>
          /\ pc' # "parse"
          /\ UNCHANGED <<first, scope, todo, yyvs, crt, lhs>>
C30_FinalizeOnce == [][C30_Step]_vars
\* an accepted run has ended with both sections printed, the report first,
\* and cleansymbol() had freed a symbol
C30_Witness ==
    /\ pc = "done"
    /\ report = <<"Symbol Table", "Preorder Traversal">>
    /\ Len(first) < Len(BeforeClean)

\* the slots of a Node that hold a child, in the order child[0] .. child[3]
NonEmpty(nd, n) ==
    SelectSeq(Children(nd, n), LAMBDA c : c # NULL /\ c # UNINIT)

\* the reference preorder: a childless node is its label; a node with children
\* is "(", its label, the serialization of each child in slot order, ")"
RECURSIVE Reference(_, _)
RECURSIVE ReferenceAll(_, _)
Reference(nd, n) ==
    IF NonEmpty(nd, n) = <<>> THEN <<nd[n].token>>
    ELSE <<"(", nd[n].token>> \o ReferenceAll(nd, NonEmpty(nd, n)) \o <<")">>
ReferenceAll(nd, cs) ==
    IF cs = <<>> THEN <<>>
    ELSE Reference(nd, Head(cs)) \o ReferenceAll(nd, Tail(cs))

\* C25: the call preorder(root) of main on the finished tree leaves in preBuf
\* the reference preorder of the tree.
C25_Step ==
    pc = "levelled" /\ root # NULL => preBuf' = Reference(nodes, root)
C25_PreorderIsReference == [][C25_Step]_vars

\* C26: a second call preorder(root) on the same tree leaves preBuf as it was
\* after the first call.
C26_Step ==
    pc = "done" /\ pc' = "again" => preBuf' = preBuf
C26_PreorderIdempotent == [][C26_Step]_vars

\* C21: a division whose divisor is zero prints the one warning "division by
\* zero is undefined", has the value INT_MAX, allocates no Node and leaves the
\* stack of subtrees as it was; a division whose divisor is not zero prints
\* nothing and replaces the two topmost entries by the Node "/" whose right
\* child is the divisor's node and whose left child is the dividend's.
C21_Step ==
    Reducing({84}) /\ Dollar(3, 3).t = "fval" =>
        IF Dollar(3, 3).v = 0
        THEN /\ out' = <<"warning: division by zero is undefined">>
             /\ yyvs' = Reduced(3, V("fval", ToFloat(INT_MAX), ""))
             /\ nodes' = nodes
             /\ tree_top' = tree_top
        ELSE /\ out' = <<>>
             /\ Replaces(2)
             /\ NewNode.token = "/"
             /\ NewNode.right = Top(tree_top, 1) /\ NewNode.right # NULL
             /\ NewNode.left = Top(tree_top, 2) /\ NewNode.left # NULL
C21_DivisionByZero == [][C21_Step]_vars

\* the Node n is the leaf of a float literal / of an int literal other than 0
FloatLeaf(n) ==
    n # NULL /\ \E v \in ArithProfile.flits : nodes[n].token = FloatText(v)
IntLeaf(n) ==
    n # NULL /\ \E v \in ArithProfile.lits \ {0} : nodes[n].token = ToString(v)

\* C22: a modulo whose left operand ends in the literal written just before
\* the '%' and whose right operand is the literal written just after it, both
\* literals being floats or ints other than 0, prints the error "invalid
\* operands" and allocates no Node when one of the two is a float, prints
\* nothing and builds the Node "%" when both are ints; the parse goes on in
\* both cases.
C22_Step ==
    Reducing({85}) /\ CanPop(tree_top, 2)
    /\ Top(tree_top, 2) = Dollar(2, 3).v /\ Top(tree_top, 1) = Len(nodes)
    /\ Len(nodes) = Dollar(2, 3).v + 1
    /\ (\A n \in {Top(tree_top, 1), Top(tree_top, 2)} : FloatLeaf(n) \/ IntLeaf(n)) =>
        LET l == Top(tree_top, 2)
            r == Top(tree_top, 1)
        IN /\ FloatLeaf(l) \/ FloatLeaf(r) =>
                 /\ pc' = "parse"
                 /\ out' = <<"error: invalid operands to binary expression ('float' and 'float')">>
                 /\ nodes' = nodes /\ tree_top' = tree_top
           /\ IntLeaf(l) /\ IntLeaf(r) =>
                 /\ pc' = "parse"
                 /\ out' = <<>>
                 /\ Replaces(2) /\ NewNode.token = "%"
                 /\ NewNode.left = l /\ NewNode.right = r
C22_ModuloOnFloat == [][C22_Step]_vars

\* the type of the expression whose tree is the Node n, where the tree is
\* made of literals and sums: 0 int, 1 float, 2 char, -1 when it is not known
\* from the tree (a name, an absent operand)
RECURSIVE TypeOf(_)
TypeOf(n) ==
    IF n = NULL \/ n = UNINIT THEN -1
    ELSE IF nodes[n].left = NULL /\ nodes[n].right = NULL
    THEN (IF \E v \in NarrowProfile.flits : nodes[n].token = FloatText(v) THEN 1
          ELSE IF \E v \in NarrowProfile.lits : nodes[n].token = ToString(v) THEN 0
          ELSE IF \E v \in NarrowProfile.clits : nodes[n].token = CharText(v) THEN 2
          ELSE -1)
    ELSE IF nodes[n].token = "+"
    THEN (IF TypeOf(nodes[n].left) = -1 \/ TypeOf(nodes[n].right) = -1 THEN -1
          ELSE IF 1 \in {TypeOf(nodes[n].left), TypeOf(nodes[n].right)} THEN 1
          ELSE 0)
    ELSE -1

\* the warning for a right-hand side of type t stored into a symbol of type d
NarrowingWarning(t, d) ==
    IF d = 0 /\ t = 1 THEN <<"warning: implicit conversion from 'float' to 'int'">>
    ELSE IF d = 1 /\ t = 2 THEN <<"warning: implicit conversion from 'char' to 'float'">>
    ELSE IF d = 2 /\ t = 1 THEN <<"warning: implicit conversion from 'float' to 'char'">>
    ELSE <<>>

\* the symbol an initialization (rule 38) or an assignment (rule 42) stores
\* into, NULL when the step stores nothing
StoresInto ==
    IF Reducing({38}) /\ DeclBranch(first[Dollar(1, 4).v]) = "declare"
       /\ datatype \in {0, 1, 2}
    THEN Dollar(1, 4).v
    ELSE IF Reducing({42}) /\ assignop = 0 /\ idcheck = 1 /\ crt # NULL
            /\ first[crt].dtype \in {0, 1, 2}
    THEN crt
    ELSE NULL

\* C23: an initialization or assignment whose right-hand side is the tree
\* built last, of known type t, stored into a symbol of type d: prints the
\* narrowing warning when (t, d) is float to int, char to float or float to
\* char, and the symbol then holds the value converted to d; prints nothing
\* when t = d.
C23_Step ==
    StoresInto # NULL /\ CanPop(tree_top, 2) /\ Top(tree_top, 1) = Len(nodes)
    /\ TypeOf(Top(tree_top, 1)) # -1 =>
        LET t == TypeOf(Top(tree_top, 1))
            d == IF Reducing({38}) THEN datatype ELSE first[crt].dtype
        IN /\ NarrowingWarning(t, d) # <<>> =>
                 /\ out' = NarrowingWarning(t, d)
                 /\ first'[StoresInto].dtype = d
                 /\ Dollar(4, 4).t = "fval" =>
                       first'[StoresInto].val = Assigned(d, Dollar(4, 4).v)
           /\ t = d => out' = <<>>
C23_NarrowingWarning == [][C23_Step]_vars

\* C34: the reduction of a primary expression (an identifier, an integer, a
\* float or a character literal) allocates one leaf and pushes it on the stack
\* of subtrees, nothing being popped; the leaf of an identifier is labelled
\* with the name of the symbol, whatever the type of the symbol is.
C34_Step ==
    Reducing({55, 56, 57, 58}) =>
        /\ Built
        /\ tree_top' = push_tree(tree_top, Len(nodes'))
        /\ NewNode.left = NULL /\ NewNode.right = NULL
        /\ Head(todo).n = 55 => NewNode.token = first[Dollar(1, 1).v].name
C34_PrimaryPushesLeaf == [][C34_Step]_vars

\* C36: the depth is never negative and every valid symbol has a scope that
\* is at most the depth.
C36_ValidWithinDepth ==
    /\ scope >= 0
    /\ \A i \in 1..Len(first) : first[i].valid = 1 => first[i].scope <= scope
\* a block has just closed at depth >= 1: a symbol it declared is no longer
\* valid, and a valid symbol of the enclosing block is left
C36_Witness ==
    /\ last.rule = 23 /\ scope >= 1
    /\ \E i \in 1..Len(first) : first[i].valid = 0 /\ first[i].scope = scope + 1
    /\ \E i \in 1..Len(first) : first[i].valid = 1 /\ first[i].scope = scope

\* the name nm is declared in a block that has closed and nowhere else: some
\* typed symbol has it and none of them is valid
ClosedName(nm) ==
    /\ \E i \in 1..Len(first) :
          first[i].name = nm /\ first[i].dtype # -1 /\ first[i].valid = 0
    /\ \A i \in 1..Len(first) :
          first[i].name = nm /\ first[i].dtype # -1 => first[i].valid = 0

\* C37: the symbol checksym returns for an IDENTIFIER is valid; a reference
\* to a name declared only in blocks that have closed is resolved to an
\* untyped valid symbol of the current depth and is reported as undeclared.
C37_Step ==
    /\ AtToken("IDENTIFIER") => first'[yyvs'[Len(yyvs')].v].valid = 1
    /\ Reducing({55}) /\ ClosedName(first[Dollar(1, 1).v].name) =>
          /\ first[Dollar(1, 1).v].dtype = -1
          /\ first[Dollar(1, 1).v].valid = 1
          /\ first[Dollar(1, 1).v].scope = scope
          /\ out' = <<"error: use of undeclared identifier">>
C37_ClosedNameUndeclared == [][C37_Step]_vars

\* C35: a symbol that the reduction of an init_declarator types (it was
\* untyped or did not exist before the step and is typed after it) has the
\* current depth as its scope.
C35_Step ==
    Reducing({38, 39}) =>
        \A i \in 1..Len(first') :
            (i > Len(first) \/ first[i].dtype = -1) /\ first'[i].dtype # -1
                => first'[i].scope = scope
C35_TypedAtOwnDepth == [][C35_Step]_vars

\* C39: after an init_declarator with initializer is rejected with the
\* redefinition error, the stack of subtrees holds what it held below the leaf
\* of the declarator's identifier (the Node allocated last before the '=' was
\* shifted) and no Node allocated since.
C39_Step ==
    Reducing({38}) /\ out' = <<"error: redefinition">> =>
        tree_top' = SelectSeq(tree_top, LAMBDA n : n < Dollar(3, 4).v)
C39_RejectedLeavesNothing == [][C39_Step]_vars

\* C38: the reduction of block_item_list: block_item_list block_item replaces
\* the two topmost entries by a Node "stmt" whose right child is the Node of
\* the item just completed, the one allocated last, and whose left child is
\* the Node of the items before it, an earlier Node and not the absent one.
C38_Step ==
    Reducing({14}) =>
        /\ Replaces(2)
        /\ NewNode.token = "stmt"
        /\ NewNode.right = Top(tree_top, 1) /\ NewNode.right = Len(nodes)
        /\ NewNode.left = Top(tree_top, 2) /\ NewNode.left # NULL
C38_OneNodePerItem == [][C38_Step]_vars

\* C32: at the reduction of an assignment whose left-hand side is an
\* identifier, crt is the symbol of that identifier.
C32_Step ==
    Reducing({42}) /\ Dollar(2, 4).v # NULL => crt = Dollar(2, 4).v
C32_TargetIsOwnLhs == [][C32_Step]_vars


\* C33: no reduction evaluates an integer division or remainder whose right
\* operand is zero: at the reduction of '/' with a zero divisor and of '%'
\* with a divisor that is zero as an int, the zero is detected first, a
\* diagnostic is reported, no operator node is built and the parse goes on.
\* Stated for operands that both carry a value.
C33_Operands == Dollar(1, 3).t = "fval" /\ Dollar(3, 3).t = "fval"
C33_Step ==
    /\ Reducing({84}) /\ C33_Operands /\ Dollar(3, 3).v = 0
         => pc' = "parse" /\ out' # <<>> /\ nodes' = nodes
    /\ Reducing({85}) /\ C33_Operands /\ ToInt(Dollar(3, 3).v) = 0
         => pc' = "parse" /\ out' # <<>> /\ nodes' = nodes
C33_ZeroDivisorHandled == [][C33_Step]_vars

\* C31: when the report is printed, every int or float symbol that an
\* assignment has stored into is rendered with the value it holds, whatever
\* that value is, INT_MIN included; '-' is the rendering of the symbols never
\* assigned.
\* the entries cleansymbol() leaves in the list
C31_Kept(e) == e.dtype # -1 /\ ~(e.name = "main" /\ e.token = "function")
\* the row of the report for entry i of the list the parse ended with
C31_RowOf(i) == Cardinality({j \in 1..i : C31_Kept(snap[1][j])})
C31_AssignedIsRendered ==
    "Symbol Table" \in Printed =>
        \A i \in stored :
            snap[1][i].dtype \in {0, 1} =>
                table[C31_RowOf(i)].value
                    = Cell(IF snap[1][i].dtype = 0 THEN "%d" ELSE "%f", snap[1][i].val)
====
